---- MODULE Spec2Model ----
(***************************************************************************)
(* The connection/channel state machine of the AMQP client core            *)
(* (async/src/api.rs): one operator per issuer and per inbound handler,    *)
(* written as a function from the connection value to the connection      *)
(* value and the returned Result, and one action per operation.            *)
(***************************************************************************)
EXTENDS Integers, Sequences, FiniteSets, TLC

VARIABLES channels, request_index, finished_reqs, finished_get_reqs,
          generated_names, prefetch_size, prefetch_count, subscribers,
          returned, published

vars == <<channels, request_index, finished_reqs, finished_get_reqs,
          generated_names, prefetch_size, prefetch_count, subscribers,
          returned, published>>

(***************************************************************************)
(* Bounds of the exploration and input domains.                            *)
(***************************************************************************)
\* request ids handed out under Spec (two channels, every operation)
MaxReq == 2
\* request ids handed out under SpecOne (one channel, every operation)
MaxReqOne == 3
\* request ids handed out under SpecConfirm (one channel, publisher confirms)
MaxReqConfirm == 5
\* a subscriber buffers at most this many complete deliveries
MaxPrefetched == 1
\* largest body size announced by a content header
MaxBody == 1

ChannelIds == {1, 2}
\* channel ids a caller may name; 3 names no channel
CallIds == {1, 2, 3}
QueueNames == {"q1", "q2"}
\* the names a caller declares: the empty name asks the broker for one
DeclareNames == QueueNames \cup {""}
Exchanges == {"e1"}
RoutingKeys == {"k1"}
ConsumerTags == {"t1"}
SubscriberIds == {"s1"}
DeliveryTags == {0, 1, 2, 3}
\* delivery tags a caller acknowledges
AckTags == {0, 1}
Counts == {0, 1}

(***************************************************************************)
(* Option<T>: None is the empty sequence, Some(x) the one-element one.     *)
(***************************************************************************)
None == <<>>
Some(x) == <<x>>

(***************************************************************************)
(* HashMap<K, V> as a set of <<key, value>> pairs with unique keys.        *)
(***************************************************************************)
EmptyMap == {}
Keys(m) == {p[1] : p \in m}
Values(m) == {p[2] : p \in m}
Has(m, k) == \E p \in m : p[1] = k
Get(m, k) == (CHOOSE p \in m : p[1] = k)[2]
Insert(m, k, v) == {p \in m : p[1] # k} \cup {<<k, v>>}
Remove(m, k) == {p \in m : p[1] # k}

(***************************************************************************)
(* ChannelState                                                            *)
(***************************************************************************)
Initial == [tag |-> "Initial"]
Connected == [tag |-> "Connected"]
Closed == [tag |-> "Closed"]
Error == [tag |-> "Error"]
WillReceiveContent(q, t) == [tag |-> "WillReceiveContent", queue |-> q, consumer_tag |-> t]
ReceivingContent(q, t, n) ==
    [tag |-> "ReceivingContent", queue |-> q, consumer_tag |-> t, size |-> n]

(***************************************************************************)
(* Answer: the variant name, the request id, and the variant's context.    *)
(***************************************************************************)
Answer(kind, request_id) == [kind |-> kind, request_id |-> request_id]
AwaitingQueueBindOk(request_id, exchange, routing_key) ==
    [kind |-> "AwaitingQueueBindOk", request_id |-> request_id,
     exchange |-> exchange, routing_key |-> routing_key]
AwaitingQueuePurgeOk(request_id, queue) ==
    [kind |-> "AwaitingQueuePurgeOk", request_id |-> request_id, queue |-> queue]
AwaitingQueueDeleteOk(request_id, queue) ==
    [kind |-> "AwaitingQueueDeleteOk", request_id |-> request_id, queue |-> queue]
AwaitingQueueUnbindOk(request_id, exchange, routing_key) ==
    [kind |-> "AwaitingQueueUnbindOk", request_id |-> request_id,
     exchange |-> exchange, routing_key |-> routing_key]
AwaitingBasicQosOk(request_id, size, count, global) ==
    [kind |-> "AwaitingBasicQosOk", request_id |-> request_id,
     prefetch_size |-> size, prefetch_count |-> count, global |-> global]
AwaitingBasicConsumeOk(request_id, queue, consumer_tag, no_local, no_ack, exclusive, nowait, subscriber) ==
    [kind |-> "AwaitingBasicConsumeOk", request_id |-> request_id,
     queue |-> queue, consumer_tag |-> consumer_tag, no_local |-> no_local,
     no_ack |-> no_ack, exclusive |-> exclusive, nowait |-> nowait,
     subscriber |-> subscriber]
AwaitingBasicGetAnswer(request_id, queue) ==
    [kind |-> "AwaitingBasicGetAnswer", request_id |-> request_id, queue |-> queue]

(***************************************************************************)
(* The model objects.                                                      *)
(***************************************************************************)
NewChannel(id) ==
    [id |-> id, state |-> Initial, awaiting |-> <<>>,
     send_flow |-> TRUE, receive_flow |-> TRUE, queues |-> EmptyMap,
     prefetch_size |-> 0, prefetch_count |-> 0,
     confirm |-> FALSE, message_count |-> 0,
     unacked |-> {}, acked |-> {}, nacked |-> {}]

NewQueue(name, message_count, consumer_count) ==
    [name |-> name, message_count |-> message_count,
     consumer_count |-> consumer_count, bindings |-> EmptyMap,
     consumers |-> EmptyMap, current_get_message |-> None]

NewBinding(exchange, routing_key, nowait) ==
    [exchange |-> exchange, routing_key |-> routing_key, nowait |-> nowait,
     active |-> FALSE]

NewConsumer(tag, no_local, no_ack, exclusive, nowait, subscriber) ==
    [tag |-> tag, no_local |-> no_local, no_ack |-> no_ack,
     exclusive |-> exclusive, nowait |-> nowait, subscriber |-> subscriber,
     current_message |-> None]

NewDelivery(delivery_tag, exchange, routing_key, redelivered) ==
    [delivery_tag |-> delivery_tag, exchange |-> exchange,
     routing_key |-> routing_key, redelivered |-> redelivered, data |-> 0]

NewBasicGetMessage(delivery_tag, exchange, routing_key, redelivered, message_count) ==
    [delivery |-> NewDelivery(delivery_tag, exchange, routing_key, redelivered),
     message_count |-> message_count]

\* a user's subscriber object: the deliveries it buffers, the cancels it saw
NewSubscriber == [messages |-> <<>>, cancels |-> 0]

(***************************************************************************)
(* The connection value the operations act on, and their results.          *)
(***************************************************************************)
Conn ==
    [channels |-> channels, request_index |-> request_index,
     finished_reqs |-> finished_reqs, finished_get_reqs |-> finished_get_reqs,
     generated_names |-> generated_names, prefetch_size |-> prefetch_size,
     prefetch_count |-> prefetch_count, subscribers |-> subscribers,
     frames |-> <<>>]

Ok(c, v) == [conn |-> c, res |-> "Ok", val |-> v]
Err(c, e) == [conn |-> c, res |-> e, val |-> 0]

(***************************************************************************)
(* Helpers of Connection and Channel the operations call.                  *)
(***************************************************************************)
contains_key(c, id) == id \in DOMAIN c.channels

channel_is_connected(ch) == ch.state = Connected

is_connected(c, id) ==
    IF contains_key(c, id) THEN channel_is_connected(c.channels[id]) ELSE FALSE

\* Ok, or the error of a channel that is not in the expected state
check_state(c, id, state) ==
    IF ~contains_key(c, id) THEN "InvalidChannel"
    ELSE IF c.channels[id].state = state THEN "Ok" ELSE "InvalidState"

set_channel_state(c, id, state) ==
    IF contains_key(c, id) THEN [c EXCEPT !.channels[id].state = state] ELSE c

\* pops the head of awaiting: the connection after, and the Option<Answer>
get_next_answer(c, id) ==
    IF contains_key(c, id) /\ Len(c.channels[id].awaiting) > 0
    THEN [conn |-> [c EXCEPT !.channels[id].awaiting = Tail(@)],
          answer |-> Some(Head(c.channels[id].awaiting))]
    ELSE [conn |-> c, answer |-> None]

IsAnswer(opt, kind) == opt # None /\ opt[1].kind = kind

\* the id allocated, and the connection after
next_request_id(c) ==
    [conn |-> [c EXCEPT !.request_index = @ + 1], id |-> c.request_index]

push_back_answer(c, id, answer) ==
    IF contains_key(c, id)
    THEN [c EXCEPT !.channels[id].awaiting = Append(@, answer)] ELSE c

\* the frame sink: accepts the frame (sink_ok) or fails and keeps nothing
send_method_frame(c, id, method, sink_ok) ==
    IF sink_ok THEN Ok([c EXCEPT !.frames = Append(@, <<id, method>>)], 0)
    ELSE Err(c, "SinkError")

Method(name) == [name |-> name]

(***************************************************************************)
(* channel.*                                                               *)
(***************************************************************************)
\* as channel_open, but the channel counts as connected once the request is out
channel_open_ConnectsAtOnce(c, id, sink_ok) ==
    IF ~contains_key(c, id) THEN Err(c, "InvalidChannel")
    ELSE IF check_state(c, id, Initial) # "Ok"
    THEN Err(set_channel_state(c, id, Error), check_state(c, id, Initial))
    ELSE LET s == send_method_frame(c, id, Method("channel.open"), sink_ok) IN
         IF s.res # "Ok" THEN s
         ELSE LET r == next_request_id(s.conn) IN
              Ok(set_channel_state(
                     push_back_answer(r.conn, id, Answer("AwaitingChannelOpenOk", r.id)),
                     id, Connected), r.id)
channel_open(c, id, sink_ok) ==
    IF ~contains_key(c, id) THEN Err(c, "InvalidChannel")
    ELSE IF check_state(c, id, Initial) # "Ok"
    THEN Err(set_channel_state(c, id, Error), check_state(c, id, Initial))
    ELSE LET s == send_method_frame(c, id, Method("channel.open"), sink_ok) IN
         IF s.res # "Ok" THEN s
         ELSE LET r == next_request_id(s.conn) IN
              Ok(push_back_answer(r.conn, id, Answer("AwaitingChannelOpenOk", r.id)), r.id)

receive_channel_open_ok(c, id) ==
    IF ~contains_key(c, id) THEN Err(c, "InvalidChannel")
    ELSE IF check_state(c, id, Initial) # "Ok"
    THEN Err(set_channel_state(c, id, Error), check_state(c, id, Initial))
    ELSE LET g == get_next_answer(c, id) IN
         IF IsAnswer(g.answer, "AwaitingChannelOpenOk")
         THEN Ok(set_channel_state(
                   [g.conn EXCEPT !.finished_reqs = Insert(@, g.answer[1].request_id, TRUE)],
                   id, Connected), 0)
         ELSE Err(set_channel_state(g.conn, id, Error), "UnexpectedAnswer")

channel_flow(c, id, active, sink_ok) ==
    IF ~contains_key(c, id) THEN Err(c, "InvalidChannel")
    ELSE IF ~is_connected(c, id) THEN Err(c, "NotConnected")
    ELSE LET s == send_method_frame(c, id, [name |-> "channel.flow", active |-> active], sink_ok) IN
         IF s.res # "Ok" THEN s
         ELSE LET r == next_request_id(s.conn) IN
              Ok(push_back_answer(r.conn, id, Answer("AwaitingChannelFlowOk", r.id)), r.id)

channel_flow_ok(c, id, active, sink_ok) ==
    IF ~contains_key(c, id) THEN Err(c, "InvalidChannel")
    ELSE IF ~is_connected(c, id) THEN Err(c, "NotConnected")
    ELSE send_method_frame(c, id, [name |-> "channel.flow_ok", active |-> active], sink_ok)

receive_channel_flow(c, id, active, sink_ok) ==
    IF ~contains_key(c, id) THEN Err(c, "InvalidChannel")
    ELSE IF ~is_connected(c, id) THEN Err(c, "NotConnected")
    ELSE channel_flow_ok([c EXCEPT !.channels[id].send_flow = active], id, active, sink_ok)

\* as receive_channel_flow_ok, but the flag set is the one of the other direction
receive_channel_flow_ok_SetsSendFlow(c, id, active) ==
    IF ~contains_key(c, id) THEN Err(c, "InvalidChannel")
    ELSE IF ~is_connected(c, id) THEN Err(c, "NotConnected")
    ELSE LET g == get_next_answer(c, id) IN
         IF IsAnswer(g.answer, "AwaitingChannelFlowOk")
         THEN Ok([g.conn EXCEPT !.finished_reqs = Insert(@, g.answer[1].request_id, TRUE),
                                !.channels[id].send_flow = active], 0)
         ELSE Err(set_channel_state(g.conn, id, Error), "UnexpectedAnswer")
receive_channel_flow_ok(c, id, active) ==
    IF ~contains_key(c, id) THEN Err(c, "InvalidChannel")
    ELSE IF ~is_connected(c, id) THEN Err(c, "NotConnected")
    ELSE LET g == get_next_answer(c, id) IN
         IF IsAnswer(g.answer, "AwaitingChannelFlowOk")
         THEN Ok([g.conn EXCEPT !.finished_reqs = Insert(@, g.answer[1].request_id, TRUE),
                                !.channels[id].receive_flow = active], 0)
         ELSE Err(set_channel_state(g.conn, id, Error), "UnexpectedAnswer")

\* as channel_close, but without the check that the channel is connected
channel_close_Unguarded(c, id, sink_ok) ==
    IF ~contains_key(c, id) THEN Err(c, "InvalidChannel")
    ELSE LET s == send_method_frame(c, id, Method("channel.close"), sink_ok) IN
         IF s.res # "Ok" THEN s
         ELSE LET r == next_request_id(s.conn) IN
              Ok(push_back_answer(r.conn, id, Answer("AwaitingChannelCloseOk", r.id)), r.id)
channel_close(c, id, sink_ok) ==
    IF ~contains_key(c, id) THEN Err(c, "InvalidChannel")
    ELSE IF ~is_connected(c, id) THEN Err(c, "NotConnected")
    ELSE LET s == send_method_frame(c, id, Method("channel.close"), sink_ok) IN
         IF s.res # "Ok" THEN s
         ELSE LET r == next_request_id(s.conn) IN
              Ok(push_back_answer(r.conn, id, Answer("AwaitingChannelCloseOk", r.id)), r.id)

channel_close_ok(c, id, sink_ok) ==
    IF ~contains_key(c, id) THEN Err(c, "InvalidChannel")
    ELSE IF ~is_connected(c, id) THEN Err(c, "NotConnected")
    ELSE send_method_frame(c, id, Method("channel.close_ok"), sink_ok)

receive_channel_close(c, id, sink_ok) ==
    IF ~contains_key(c, id) THEN Err(c, "InvalidChannel")
    ELSE IF ~is_connected(c, id) THEN Err(c, "NotConnected")
    ELSE channel_close_ok(set_channel_state(get_next_answer(c, id).conn, id, Closed),
                          id, sink_ok)

\* as receive_channel_close_ok, but the close request is not recorded as finished
receive_channel_close_ok_NotRecorded(c, id) ==
    IF ~contains_key(c, id) THEN Err(c, "InvalidChannel")
    ELSE IF ~is_connected(c, id) THEN Err(c, "NotConnected")
    ELSE LET g == get_next_answer(c, id) IN
         IF IsAnswer(g.answer, "AwaitingChannelCloseOk")
         THEN Ok(set_channel_state(g.conn, id, Closed), 0)
         ELSE Err(set_channel_state(g.conn, id, Error), "UnexpectedAnswer")
receive_channel_close_ok(c, id) ==
    IF ~contains_key(c, id) THEN Err(c, "InvalidChannel")
    ELSE IF ~is_connected(c, id) THEN Err(c, "NotConnected")
    ELSE LET g == get_next_answer(c, id) IN
         IF IsAnswer(g.answer, "AwaitingChannelCloseOk")
         THEN Ok(set_channel_state(
                   [g.conn EXCEPT !.finished_reqs = Insert(@, g.answer[1].request_id, TRUE)],
                   id, Closed), 0)
         ELSE Err(set_channel_state(g.conn, id, Error), "UnexpectedAnswer")

(***************************************************************************)
(* access.* and exchange.*                                                 *)
(***************************************************************************)
access_request(c, id, sink_ok) ==
    IF ~contains_key(c, id) THEN Err(c, "InvalidChannel")
    ELSE IF ~is_connected(c, id) THEN Err(c, "NotConnected")
    ELSE LET s == send_method_frame(c, id, Method("access.request"), sink_ok) IN
         IF s.res # "Ok" THEN s
         ELSE LET r == next_request_id(s.conn) IN
              Ok([r.conn EXCEPT !.channels[id].awaiting =
                      Append(@, Answer("AwaitingAccessRequestOk", r.id))], r.id)

\* as receive_access_request_ok, but the request is not recorded as finished
receive_access_request_ok_NotRecorded(c, id) ==
    IF ~contains_key(c, id) THEN Err(c, "InvalidChannel")
    ELSE IF ~is_connected(c, id) THEN Err(c, "NotConnected")
    ELSE LET g == get_next_answer(c, id) IN
         IF IsAnswer(g.answer, "AwaitingAccessRequestOk")
         THEN Ok(g.conn, 0)
         ELSE Err(set_channel_state(g.conn, id, Error), "UnexpectedAnswer")
receive_access_request_ok(c, id) ==
    IF ~contains_key(c, id) THEN Err(c, "InvalidChannel")
    ELSE IF ~is_connected(c, id) THEN Err(c, "NotConnected")
    ELSE LET g == get_next_answer(c, id) IN
         IF IsAnswer(g.answer, "AwaitingAccessRequestOk")
         THEN Ok([g.conn EXCEPT !.finished_reqs = Insert(@, g.answer[1].request_id, TRUE)], 0)
         ELSE Err(set_channel_state(g.conn, id, Error), "UnexpectedAnswer")

exchange_declare(c, id, sink_ok) ==
    IF ~contains_key(c, id) THEN Err(c, "InvalidChannel")
    ELSE IF ~is_connected(c, id) THEN Err(c, "NotConnected")
    ELSE LET s == send_method_frame(c, id, Method("exchange.declare"), sink_ok) IN
         IF s.res # "Ok" THEN s
         ELSE LET r == next_request_id(s.conn) IN
              Ok([r.conn EXCEPT !.channels[id].awaiting =
                      Append(@, Answer("AwaitingExchangeDeclareOk", r.id))], r.id)

receive_exchange_declare_ok(c, id) ==
    IF ~contains_key(c, id) THEN Err(c, "InvalidChannel")
    ELSE IF ~is_connected(c, id) THEN Err(c, "NotConnected")
    ELSE LET g == get_next_answer(c, id) IN
         IF IsAnswer(g.answer, "AwaitingExchangeDeclareOk")
         THEN Ok([g.conn EXCEPT !.finished_reqs = Insert(@, g.answer[1].request_id, TRUE)], 0)
         ELSE Err(set_channel_state(g.conn, id, Error), "UnexpectedAnswer")

exchange_delete(c, id, sink_ok) ==
    IF ~contains_key(c, id) THEN Err(c, "InvalidChannel")
    ELSE IF ~is_connected(c, id) THEN Err(c, "NotConnected")
    ELSE LET s == send_method_frame(c, id, Method("exchange.delete"), sink_ok) IN
         IF s.res # "Ok" THEN s
         ELSE LET r == next_request_id(s.conn) IN
              Ok([r.conn EXCEPT !.channels[id].awaiting =
                      Append(@, Answer("AwaitingExchangeDeleteOk", r.id))], r.id)

receive_exchange_delete_ok(c, id) ==
    IF ~contains_key(c, id) THEN Err(c, "InvalidChannel")
    ELSE IF ~is_connected(c, id) THEN Err(c, "NotConnected")
    ELSE LET g == get_next_answer(c, id) IN
         IF IsAnswer(g.answer, "AwaitingExchangeDeleteOk")
         THEN Ok([g.conn EXCEPT !.finished_reqs = Insert(@, g.answer[1].request_id, TRUE)], 0)
         ELSE Err(set_channel_state(g.conn, id, Error), "UnexpectedAnswer")

exchange_bind(c, id, sink_ok) ==
    IF ~contains_key(c, id) THEN Err(c, "InvalidChannel")
    ELSE IF ~is_connected(c, id) THEN Err(c, "NotConnected")
    ELSE LET s == send_method_frame(c, id, Method("exchange.bind"), sink_ok) IN
         IF s.res # "Ok" THEN s
         ELSE LET r == next_request_id(s.conn) IN
              Ok([r.conn EXCEPT !.channels[id].awaiting =
                      Append(@, Answer("AwaitingExchangeBindOk", r.id))], r.id)

receive_exchange_bind_ok(c, id) ==
    IF ~contains_key(c, id) THEN Err(c, "InvalidChannel")
    ELSE IF ~is_connected(c, id) THEN Err(c, "NotConnected")
    ELSE LET g == get_next_answer(c, id) IN
         IF IsAnswer(g.answer, "AwaitingExchangeBindOk")
         THEN Ok([g.conn EXCEPT !.finished_reqs = Insert(@, g.answer[1].request_id, TRUE)], 0)
         ELSE Err(set_channel_state(g.conn, id, Error), "UnexpectedAnswer")

exchange_unbind(c, id, sink_ok) ==
    IF ~contains_key(c, id) THEN Err(c, "InvalidChannel")
    ELSE IF ~is_connected(c, id) THEN Err(c, "NotConnected")
    ELSE LET s == send_method_frame(c, id, Method("exchange.unbind"), sink_ok) IN
         IF s.res # "Ok" THEN s
         ELSE LET r == next_request_id(s.conn) IN
              Ok([r.conn EXCEPT !.channels[id].awaiting =
                      Append(@, Answer("AwaitingExchangeUnbindOk", r.id))], r.id)

receive_exchange_unbind_ok(c, id) ==
    IF ~contains_key(c, id) THEN Err(c, "InvalidChannel")
    ELSE IF ~is_connected(c, id) THEN Err(c, "NotConnected")
    ELSE LET g == get_next_answer(c, id) IN
         IF IsAnswer(g.answer, "AwaitingExchangeUnbindOk")
         THEN Ok([g.conn EXCEPT !.finished_reqs = Insert(@, g.answer[1].request_id, TRUE)], 0)
         ELSE Err(set_channel_state(g.conn, id, Error), "UnexpectedAnswer")

(***************************************************************************)
(* queue.*                                                                 *)
(***************************************************************************)
\* as queue_declare, but the request id is read without being used up
queue_declare_ReusesId(c, id, queue, sink_ok) ==
    IF ~contains_key(c, id) THEN Err(c, "InvalidChannel")
    ELSE IF ~is_connected(c, id) THEN Err(c, "NotConnected")
    ELSE LET s == send_method_frame(c, id, [name |-> "queue.declare", queue |-> queue], sink_ok) IN
         IF s.res # "Ok" THEN s
         ELSE Ok([s.conn EXCEPT !.channels[id].awaiting =
                      Append(@, Answer("AwaitingQueueDeclareOk", s.conn.request_index))],
                 s.conn.request_index)
queue_declare(c, id, queue, sink_ok) ==
    IF ~contains_key(c, id) THEN Err(c, "InvalidChannel")
    ELSE IF ~is_connected(c, id) THEN Err(c, "NotConnected")
    ELSE LET s == send_method_frame(c, id, [name |-> "queue.declare", queue |-> queue], sink_ok) IN
         IF s.res # "Ok" THEN s
         ELSE LET r == next_request_id(s.conn) IN
              Ok([r.conn EXCEPT !.channels[id].awaiting =
                      Append(@, Answer("AwaitingQueueDeclareOk", r.id))], r.id)

\* as receive_queue_declare_ok, but the name the broker chose is not recorded
\* as receive_queue_declare_ok, but without the check that the channel is connected
receive_queue_declare_ok_WhileClosed(c, id, method) ==
    IF ~contains_key(c, id) THEN Err(c, "InvalidChannel")
    ELSE LET g == get_next_answer(c, id) IN
         IF IsAnswer(g.answer, "AwaitingQueueDeclareOk")
         THEN LET request_id == g.answer[1].request_id
                  q == NewQueue(method.queue, method.message_count, method.consumer_count)
              IN Ok([g.conn EXCEPT
                        !.finished_reqs = Insert(@, request_id, TRUE),
                        !.generated_names = Insert(@, request_id, method.queue),
                        !.channels[id].queues = Insert(@, method.queue, q)], 0)
         ELSE Err(set_channel_state(g.conn, id, Error), "UnexpectedAnswer")
receive_queue_declare_ok_NoGeneratedName(c, id, method) ==
    IF ~contains_key(c, id) THEN Err(c, "InvalidChannel")
    ELSE IF ~is_connected(c, id) THEN Err(c, "NotConnected")
    ELSE LET g == get_next_answer(c, id) IN
         IF IsAnswer(g.answer, "AwaitingQueueDeclareOk")
         THEN LET request_id == g.answer[1].request_id
                  q == NewQueue(method.queue, method.message_count, method.consumer_count)
              IN Ok([g.conn EXCEPT
                        !.finished_reqs = Insert(@, request_id, TRUE),
                        !.channels[id].queues = Insert(@, method.queue, q)], 0)
         ELSE Err(set_channel_state(g.conn, id, Error), "UnexpectedAnswer")
\* method: the queue.declare_ok received (queue, message_count, consumer_count)
receive_queue_declare_ok(c, id, method) ==
    IF ~contains_key(c, id) THEN Err(c, "InvalidChannel")
    ELSE IF ~is_connected(c, id) THEN Err(c, "NotConnected")
    ELSE LET g == get_next_answer(c, id) IN
         IF IsAnswer(g.answer, "AwaitingQueueDeclareOk")
         THEN LET request_id == g.answer[1].request_id
                  q == NewQueue(method.queue, method.message_count, method.consumer_count)
              IN Ok([g.conn EXCEPT
                        !.finished_reqs = Insert(@, request_id, TRUE),
                        !.generated_names = Insert(@, request_id, method.queue),
                        !.channels[id].queues = Insert(@, method.queue, q)], 0)
         ELSE Err(set_channel_state(g.conn, id, Error), "UnexpectedAnswer")

\* as queue_bind, but the binding is recorded as active from the start
queue_bind_BornActive(c, id, queue, exchange, routing_key, nowait, sink_ok) ==
    IF ~contains_key(c, id) THEN Err(c, "InvalidChannel")
    ELSE IF ~is_connected(c, id) THEN Err(c, "NotConnected")
    ELSE LET s == send_method_frame(c, id, [name |-> "queue.bind", queue |-> queue], sink_ok) IN
         IF s.res # "Ok" THEN s
         ELSE LET r == next_request_id(s.conn)
                  key == <<exchange, routing_key>>
                  born == [NewBinding(exchange, routing_key, nowait) EXCEPT !.active = TRUE]
                  bind(q) == IF q.name = queue
                             THEN [q EXCEPT !.bindings = Insert(@, key, born)]
                             ELSE q
              IN Ok([r.conn EXCEPT
                        !.channels[id].awaiting =
                            Append(@, AwaitingQueueBindOk(r.id, exchange, routing_key)),
                        !.channels[id].queues = {<<kv[1], bind(kv[2])>> : kv \in @}], r.id)
queue_bind(c, id, queue, exchange, routing_key, nowait, sink_ok) ==
    IF ~contains_key(c, id) THEN Err(c, "InvalidChannel")
    ELSE IF ~is_connected(c, id) THEN Err(c, "NotConnected")
    ELSE LET s == send_method_frame(c, id, [name |-> "queue.bind", queue |-> queue], sink_ok) IN
         IF s.res # "Ok" THEN s
         ELSE LET r == next_request_id(s.conn)
                  key == <<exchange, routing_key>>
                  bind(q) == IF q.name = queue
                             THEN [q EXCEPT !.bindings =
                                      Insert(@, key, NewBinding(exchange, routing_key, nowait))]
                             ELSE q
              IN Ok([r.conn EXCEPT
                        !.channels[id].awaiting =
                            Append(@, AwaitingQueueBindOk(r.id, exchange, routing_key)),
                        !.channels[id].queues = {<<kv[1], bind(kv[2])>> : kv \in @}], r.id)

\* as receive_queue_bind_ok, but a mismatch leaves the channel state alone
receive_queue_bind_ok_KeepsState(c, id) ==
    IF ~contains_key(c, id) THEN Err(c, "InvalidChannel")
    ELSE IF ~is_connected(c, id) THEN Err(c, "NotConnected")
    ELSE LET g == get_next_answer(c, id) IN
         IF IsAnswer(g.answer, "AwaitingQueueBindOk")
         THEN LET key == <<g.answer[1].exchange, g.answer[1].routing_key>>
                  activate(b) == [b EXCEPT !.active = TRUE]
                  mark(q) == [q EXCEPT !.bindings =
                                 IF Has(@, key) THEN Insert(@, key, activate(Get(@, key)))
                                 ELSE @]
              IN Ok([g.conn EXCEPT
                        !.finished_reqs = Insert(@, g.answer[1].request_id, TRUE),
                        !.channels[id].queues = {<<kv[1], mark(kv[2])>> : kv \in @}], 0)
         ELSE Err(g.conn, "UnexpectedAnswer")
receive_queue_bind_ok(c, id) ==
    IF ~contains_key(c, id) THEN Err(c, "InvalidChannel")
    ELSE IF ~is_connected(c, id) THEN Err(c, "NotConnected")
    ELSE LET g == get_next_answer(c, id) IN
         IF IsAnswer(g.answer, "AwaitingQueueBindOk")
         THEN LET key == <<g.answer[1].exchange, g.answer[1].routing_key>>
                  activate(b) == [b EXCEPT !.active = TRUE]
                  mark(q) == [q EXCEPT !.bindings =
                                 IF Has(@, key) THEN Insert(@, key, activate(Get(@, key)))
                                 ELSE @]
              IN Ok([g.conn EXCEPT
                        !.finished_reqs = Insert(@, g.answer[1].request_id, TRUE),
                        !.channels[id].queues = {<<kv[1], mark(kv[2])>> : kv \in @}], 0)
         ELSE Err(set_channel_state(g.conn, id, Error), "UnexpectedAnswer")

\* as queue_purge, but without the check that the channel is connected
queue_purge_Unguarded(c, id, queue, sink_ok) ==
    IF ~contains_key(c, id) THEN Err(c, "InvalidChannel")
    ELSE LET s == send_method_frame(c, id, [name |-> "queue.purge", queue |-> queue], sink_ok) IN
         IF s.res # "Ok" THEN s
         ELSE LET r == next_request_id(s.conn) IN
              Ok([r.conn EXCEPT !.channels[id].awaiting =
                      Append(@, AwaitingQueuePurgeOk(r.id, queue))], r.id)
queue_purge(c, id, queue, sink_ok) ==
    IF ~contains_key(c, id) THEN Err(c, "InvalidChannel")
    ELSE IF ~is_connected(c, id) THEN Err(c, "NotConnected")
    ELSE LET s == send_method_frame(c, id, [name |-> "queue.purge", queue |-> queue], sink_ok) IN
         IF s.res # "Ok" THEN s
         ELSE LET r == next_request_id(s.conn) IN
              Ok([r.conn EXCEPT !.channels[id].awaiting =
                      Append(@, AwaitingQueuePurgeOk(r.id, queue))], r.id)

receive_queue_purge_ok(c, id) ==
    IF ~contains_key(c, id) THEN Err(c, "InvalidChannel")
    ELSE IF ~is_connected(c, id) THEN Err(c, "NotConnected")
    ELSE LET g == get_next_answer(c, id) IN
         IF IsAnswer(g.answer, "AwaitingQueuePurgeOk")
         THEN Ok([g.conn EXCEPT !.finished_reqs = Insert(@, g.answer[1].request_id, TRUE)], 0)
         ELSE Err(set_channel_state(g.conn, id, Error), "UnexpectedAnswer")

queue_delete(c, id, queue, sink_ok) ==
    IF ~contains_key(c, id) THEN Err(c, "InvalidChannel")
    ELSE IF ~is_connected(c, id) THEN Err(c, "NotConnected")
    ELSE LET s == send_method_frame(c, id, [name |-> "queue.delete", queue |-> queue], sink_ok) IN
         IF s.res # "Ok" THEN s
         ELSE LET r == next_request_id(s.conn) IN
              Ok([r.conn EXCEPT !.channels[id].awaiting =
                      Append(@, AwaitingQueueDeleteOk(r.id, queue))], r.id)

\* as receive_queue_delete_ok, but the queue shadow is kept
receive_queue_delete_ok_KeepsShadow(c, id) ==
    IF ~contains_key(c, id) THEN Err(c, "InvalidChannel")
    ELSE IF ~is_connected(c, id) THEN Err(c, "NotConnected")
    ELSE LET g == get_next_answer(c, id) IN
         IF IsAnswer(g.answer, "AwaitingQueueDeleteOk")
         THEN Ok([g.conn EXCEPT
                     !.finished_reqs = Insert(@, g.answer[1].request_id, TRUE)], 0)
         ELSE Err(set_channel_state(g.conn, id, Error), "UnexpectedAnswer")
receive_queue_delete_ok(c, id) ==
    IF ~contains_key(c, id) THEN Err(c, "InvalidChannel")
    ELSE IF ~is_connected(c, id) THEN Err(c, "NotConnected")
    ELSE LET g == get_next_answer(c, id) IN
         IF IsAnswer(g.answer, "AwaitingQueueDeleteOk")
         THEN Ok([g.conn EXCEPT
                     !.finished_reqs = Insert(@, g.answer[1].request_id, TRUE),
                     !.channels[id].queues = Remove(@, g.answer[1].queue)], 0)
         ELSE Err(set_channel_state(g.conn, id, Error), "UnexpectedAnswer")

queue_unbind(c, id, queue, exchange, routing_key, sink_ok) ==
    IF ~contains_key(c, id) THEN Err(c, "InvalidChannel")
    ELSE IF ~is_connected(c, id) THEN Err(c, "NotConnected")
    ELSE LET s == send_method_frame(c, id, [name |-> "queue.unbind", queue |-> queue], sink_ok) IN
         IF s.res # "Ok" THEN s
         ELSE LET r == next_request_id(s.conn) IN
              Ok([r.conn EXCEPT !.channels[id].awaiting =
                      Append(@, AwaitingQueueUnbindOk(r.id, exchange, routing_key))], r.id)

\* as receive_queue_unbind_ok, but a reply that finds no such binding is refused
receive_queue_unbind_ok_Strict(c, id) ==
    IF ~contains_key(c, id) THEN Err(c, "InvalidChannel")
    ELSE IF ~is_connected(c, id) THEN Err(c, "NotConnected")
    ELSE LET g == get_next_answer(c, id) IN
         IF IsAnswer(g.answer, "AwaitingQueueUnbindOk")
         THEN LET key == <<g.answer[1].exchange, g.answer[1].routing_key>>
                  unbind(q) == [q EXCEPT !.bindings = Remove(@, key)]
              IN IF \E q \in Values(g.conn.channels[id].queues) : Has(q.bindings, key)
                 THEN Ok([g.conn EXCEPT
                        !.finished_reqs = Insert(@, g.answer[1].request_id, TRUE),
                        !.channels[id].queues = {<<kv[1], unbind(kv[2])>> : kv \in @}], 0)
                 ELSE Err(set_channel_state(g.conn, id, Error), "UnexpectedAnswer")
         ELSE Err(set_channel_state(g.conn, id, Error), "UnexpectedAnswer")
receive_queue_unbind_ok(c, id) ==
    IF ~contains_key(c, id) THEN Err(c, "InvalidChannel")
    ELSE IF ~is_connected(c, id) THEN Err(c, "NotConnected")
    ELSE LET g == get_next_answer(c, id) IN
         IF IsAnswer(g.answer, "AwaitingQueueUnbindOk")
         THEN LET key == <<g.answer[1].exchange, g.answer[1].routing_key>>
                  unbind(q) == [q EXCEPT !.bindings = Remove(@, key)]
              IN Ok([g.conn EXCEPT
                        !.finished_reqs = Insert(@, g.answer[1].request_id, TRUE),
                        !.channels[id].queues = {<<kv[1], unbind(kv[2])>> : kv \in @}], 0)
         ELSE Err(set_channel_state(g.conn, id, Error), "UnexpectedAnswer")

(***************************************************************************)
(* basic.qos, basic.consume, basic.cancel                                  *)
(***************************************************************************)
basic_qos(c, id, size, count, global, sink_ok) ==
    IF ~contains_key(c, id) THEN Err(c, "InvalidChannel")
    ELSE IF ~is_connected(c, id) THEN Err(c, "NotConnected")
    ELSE LET s == send_method_frame(c, id, Method("basic.qos"), sink_ok) IN
         IF s.res # "Ok" THEN s
         ELSE LET r == next_request_id(s.conn) IN
              Ok([r.conn EXCEPT !.channels[id].awaiting =
                      Append(@, AwaitingBasicQosOk(r.id, size, count, global))], r.id)

\* as receive_basic_qos_ok, but the values always go to the channel
receive_basic_qos_ok_IgnoresGlobal(c, id) ==
    IF ~contains_key(c, id) THEN Err(c, "InvalidChannel")
    ELSE IF ~is_connected(c, id) THEN Err(c, "NotConnected")
    ELSE LET g == get_next_answer(c, id) IN
         IF IsAnswer(g.answer, "AwaitingBasicQosOk")
         THEN LET a == g.answer[1]
                  f == [g.conn EXCEPT !.finished_reqs = Insert(@, a.request_id, TRUE)]
              IN Ok([f EXCEPT !.channels[id].prefetch_size = a.prefetch_size,
                              !.channels[id].prefetch_count = a.prefetch_count], 0)
         ELSE Err(set_channel_state(g.conn, id, Error), "UnexpectedAnswer")
\* as receive_basic_qos_ok, but a qos that is not global is applied to every
\* channel of the connection
receive_basic_qos_ok_AllChannels(c, id) ==
    IF ~contains_key(c, id) THEN Err(c, "InvalidChannel")
    ELSE IF ~is_connected(c, id) THEN Err(c, "NotConnected")
    ELSE LET g == get_next_answer(c, id) IN
         IF IsAnswer(g.answer, "AwaitingBasicQosOk")
         THEN LET a == g.answer[1]
                  f == [g.conn EXCEPT !.finished_reqs = Insert(@, a.request_id, TRUE)]
              IN IF a.global
                 THEN Ok([f EXCEPT !.prefetch_size = a.prefetch_size,
                                   !.prefetch_count = a.prefetch_count], 0)
                 ELSE Ok([f EXCEPT !.channels =
                             [k \in DOMAIN @ |->
                                 [@[k] EXCEPT !.prefetch_size = a.prefetch_size,
                                              !.prefetch_count = a.prefetch_count]]], 0)
         ELSE Err(set_channel_state(g.conn, id, Error), "UnexpectedAnswer")

receive_basic_qos_ok(c, id) ==
    IF ~contains_key(c, id) THEN Err(c, "InvalidChannel")
    ELSE IF ~is_connected(c, id) THEN Err(c, "NotConnected")
    ELSE LET g == get_next_answer(c, id) IN
         IF IsAnswer(g.answer, "AwaitingBasicQosOk")
         THEN LET a == g.answer[1]
                  f == [g.conn EXCEPT !.finished_reqs = Insert(@, a.request_id, TRUE)]
              IN IF a.global
                 THEN Ok([f EXCEPT !.prefetch_size = a.prefetch_size,
                                   !.prefetch_count = a.prefetch_count], 0)
                 ELSE Ok([f EXCEPT !.channels[id].prefetch_size = a.prefetch_size,
                                   !.channels[id].prefetch_count = a.prefetch_count], 0)
         ELSE Err(set_channel_state(g.conn, id, Error), "UnexpectedAnswer")

\* flags: <<no_local, no_ack, exclusive, nowait>>
basic_consume(c, id, queue, consumer_tag, flags, subscriber, sink_ok) ==
    IF ~contains_key(c, id) THEN Err(c, "InvalidChannel")
    ELSE IF ~is_connected(c, id) THEN Err(c, "NotConnected")
    ELSE LET s == send_method_frame(c, id, [name |-> "basic.consume", queue |-> queue], sink_ok) IN
         IF s.res # "Ok" THEN s
         ELSE LET r == next_request_id(s.conn) IN
              Ok([r.conn EXCEPT !.channels[id].awaiting =
                      Append(@, AwaitingBasicConsumeOk(r.id, queue, consumer_tag,
                                    flags[1], flags[2], flags[3], flags[4], subscriber))],
                 r.id)

\* consumer_tag: the tag carried by the basic.consume_ok received
receive_basic_consume_ok(c, id, consumer_tag) ==
    IF ~contains_key(c, id) THEN Err(c, "InvalidChannel")
    ELSE IF ~is_connected(c, id) THEN Err(c, "NotConnected")
    ELSE LET g == get_next_answer(c, id) IN
         IF IsAnswer(g.answer, "AwaitingBasicConsumeOk")
         THEN LET a == g.answer[1]
                  consumer == NewConsumer(consumer_tag, a.no_local, a.no_ack,
                                          a.exclusive, a.nowait, a.subscriber)
                  add(q) == IF q.name = a.queue
                            THEN [q EXCEPT !.consumers = Insert(@, consumer_tag, consumer)]
                            ELSE q
              IN Ok([g.conn EXCEPT
                        !.finished_reqs = Insert(@, a.request_id, TRUE),
                        !.generated_names = Insert(@, a.request_id, consumer_tag),
                        !.channels[id].queues = {<<kv[1], add(kv[2])>> : kv \in @}], 0)
         ELSE Err(set_channel_state(g.conn, id, Error), "UnexpectedAnswer")

basic_cancel(c, id, consumer_tag, sink_ok) ==
    IF ~contains_key(c, id) THEN Err(c, "InvalidChannel")
    ELSE IF ~is_connected(c, id) THEN Err(c, "NotConnected")
    ELSE LET s == send_method_frame(c, id, [name |-> "basic.cancel", consumer_tag |-> consumer_tag],
                                    sink_ok) IN
         IF s.res # "Ok" THEN s
         ELSE LET r == next_request_id(s.conn) IN
              Ok([r.conn EXCEPT !.channels[id].awaiting =
                      Append(@, Answer("AwaitingBasicCancelOk", r.id))], r.id)

\* Consumer::cancel, once for every consumer in `removed`
RECURSIVE cancel_all(_, _)
cancel_all(subs, removed) ==
    IF removed = {} THEN subs
    ELSE LET x == CHOOSE y \in removed : TRUE IN
         cancel_all([subs EXCEPT ![x[2].subscriber].cancels = @ + 1], removed \ {x})

\* consumer_tag: the tag carried by the basic.cancel_ok received
receive_basic_cancel_ok(c, id, consumer_tag) ==
    IF ~contains_key(c, id) THEN Err(c, "InvalidChannel")
    ELSE IF ~is_connected(c, id) THEN Err(c, "NotConnected")
    ELSE LET g == get_next_answer(c, id) IN
         IF IsAnswer(g.answer, "AwaitingBasicCancelOk")
         THEN LET queues == g.conn.channels[id].queues
                  removed == {<<q.name, Get(q.consumers, consumer_tag)>> :
                                 q \in {x \in Values(queues) : Has(x.consumers, consumer_tag)}}
                  drop(q) == [q EXCEPT !.consumers = Remove(@, consumer_tag)]
              IN Ok([g.conn EXCEPT
                        !.finished_reqs = Insert(@, g.answer[1].request_id, TRUE),
                        !.channels[id].queues = {<<kv[1], drop(kv[2])>> : kv \in @},
                        !.subscribers = cancel_all(@, removed)], 0)
         ELSE Err(set_channel_state(g.conn, id, Error), "UnexpectedAnswer")

(***************************************************************************)
(* basic.publish, basic.deliver, basic.get                                 *)
(***************************************************************************)
\* returns the delivery tag (0 on a channel without confirms)
\* as basic_publish, but every publish is tracked as a confirmed one
basic_publish_AlwaysTracked(c, id, sink_ok) ==
    IF ~contains_key(c, id) THEN Err(c, "InvalidChannel")
    ELSE IF ~is_connected(c, id) THEN Err(c, "NotConnected")
    ELSE LET s == send_method_frame(c, id, Method("basic.publish"), sink_ok) IN
         IF s.res # "Ok" THEN s
         ELSE LET r == next_request_id(s.conn)
                  ch == r.conn.channels[id]
                  delivery_tag == ch.message_count
              IN Ok([r.conn EXCEPT
                        !.channels[id].awaiting =
                            Append(@, Answer("AwaitingPublishConfirm", r.id)),
                        !.channels[id].unacked = @ \cup {delivery_tag},
                        !.channels[id].message_count = @ + 1], delivery_tag)
\* as basic_publish, but the tag is taken after message_count is raised
basic_publish_TagAfterIncrement(c, id, sink_ok) ==
    IF ~contains_key(c, id) THEN Err(c, "InvalidChannel")
    ELSE IF ~is_connected(c, id) THEN Err(c, "NotConnected")
    ELSE LET s == send_method_frame(c, id, Method("basic.publish"), sink_ok) IN
         IF s.res # "Ok" THEN s
         ELSE LET r == next_request_id(s.conn)
                  ch == r.conn.channels[id]
              IN IF ch.confirm
                 THEN LET delivery_tag == ch.message_count + 1 IN
                      Ok([r.conn EXCEPT
                             !.channels[id].awaiting =
                                 Append(@, Answer("AwaitingPublishConfirm", r.id)),
                             !.channels[id].unacked = @ \cup {delivery_tag},
                             !.channels[id].message_count = @ + 1], delivery_tag)
                 ELSE Ok(r.conn, 0)
basic_publish(c, id, sink_ok) ==
    IF ~contains_key(c, id) THEN Err(c, "InvalidChannel")
    ELSE IF ~is_connected(c, id) THEN Err(c, "NotConnected")
    ELSE LET s == send_method_frame(c, id, Method("basic.publish"), sink_ok) IN
         IF s.res # "Ok" THEN s
         ELSE LET r == next_request_id(s.conn)
                  ch == r.conn.channels[id]
              IN IF ch.confirm
                 THEN LET delivery_tag == ch.message_count IN
                      Ok([r.conn EXCEPT
                             !.channels[id].awaiting =
                                 Append(@, Answer("AwaitingPublishConfirm", r.id)),
                             !.channels[id].unacked = @ \cup {delivery_tag},
                             !.channels[id].message_count = @ + 1], delivery_tag)
                 ELSE Ok(r.conn, 0)

\* method: the basic.deliver received; last_queue: the queue the iteration over
\* the queues map visits last (the map's order is unspecified)
receive_basic_deliver(c, id, method, last_queue) ==
    IF ~contains_key(c, id) THEN Err(c, "InvalidChannel")
    ELSE IF ~is_connected(c, id) THEN Err(c, "NotConnected")
    ELSE LET queues == c.channels[id].queues
             delivery == NewDelivery(method.delivery_tag, method.exchange,
                                     method.routing_key, method.redelivered)
             set(cs) == [cs EXCEPT !.current_message = Some(delivery)]
             fill(q) == [q EXCEPT !.consumers =
                            IF Has(@, method.consumer_tag)
                            THEN Insert(@, method.consumer_tag, set(Get(@, method.consumer_tag)))
                            ELSE @]
         IN IF queues = EmptyMap THEN Ok(c, 0)
            ELSE Ok([c EXCEPT
                       !.channels[id].state =
                           WillReceiveContent(last_queue, Some(method.consumer_tag)),
                       !.channels[id].queues = {<<kv[1], fill(kv[2])>> : kv \in @}], 0)

basic_get(c, id, queue, sink_ok) ==
    IF ~contains_key(c, id) THEN Err(c, "InvalidChannel")
    ELSE IF ~is_connected(c, id) THEN Err(c, "NotConnected")
    ELSE LET s == send_method_frame(c, id, [name |-> "basic.get", queue |-> queue], sink_ok) IN
         IF s.res # "Ok" THEN s
         ELSE LET r == next_request_id(s.conn) IN
              Ok([r.conn EXCEPT !.channels[id].awaiting =
                      Append(@, AwaitingBasicGetAnswer(r.id, queue))], r.id)

\* as receive_basic_get_ok, but the request is recorded before the Answer is matched
receive_basic_get_ok_RecordsFirst(c, id, method) ==
    IF ~contains_key(c, id) THEN Err(c, "InvalidChannel")
    ELSE IF ~is_connected(c, id) THEN Err(c, "NotConnected")
    ELSE LET g == get_next_answer(c, id)
             early == IF g.answer = None THEN g.conn
                      ELSE [g.conn EXCEPT
                               !.finished_get_reqs = Insert(@, g.answer[1].request_id, TRUE)]
         IN
         IF IsAnswer(g.answer, "AwaitingBasicGetAnswer")
         THEN LET queue_name == g.answer[1].queue
                  msg == NewBasicGetMessage(method.delivery_tag, method.exchange,
                             method.routing_key, method.redelivered, method.message_count)
                  put(q) == IF q.name = queue_name
                            THEN [q EXCEPT !.current_get_message = Some(msg)] ELSE q
                  w == set_channel_state(early, id, WillReceiveContent(queue_name, None))
              IN Ok([w EXCEPT !.channels[id].queues = {<<kv[1], put(kv[2])>> : kv \in @}], 0)
         ELSE Err(set_channel_state(early, id, Error), "UnexpectedAnswer")
\* method: the basic.get_ok received
receive_basic_get_ok(c, id, method) ==
    IF ~contains_key(c, id) THEN Err(c, "InvalidChannel")
    ELSE IF ~is_connected(c, id) THEN Err(c, "NotConnected")
    ELSE LET g == get_next_answer(c, id) IN
         IF IsAnswer(g.answer, "AwaitingBasicGetAnswer")
         THEN LET queue_name == g.answer[1].queue
                  msg == NewBasicGetMessage(method.delivery_tag, method.exchange,
                             method.routing_key, method.redelivered, method.message_count)
                  put(q) == IF q.name = queue_name
                            THEN [q EXCEPT !.current_get_message = Some(msg)] ELSE q
                  f == [g.conn EXCEPT
                           !.finished_get_reqs = Insert(@, g.answer[1].request_id, TRUE)]
                  w == set_channel_state(f, id, WillReceiveContent(queue_name, None))
              IN Ok([w EXCEPT !.channels[id].queues = {<<kv[1], put(kv[2])>> : kv \in @}], 0)
         ELSE Err(set_channel_state(g.conn, id, Error), "UnexpectedAnswer")

\* as receive_basic_get_empty, but the request is recorded as answered with a message
receive_basic_get_empty_RecordsTrue(c, id) ==
    IF ~contains_key(c, id) THEN Err(c, "InvalidChannel")
    ELSE IF ~is_connected(c, id) THEN Err(c, "NotConnected")
    ELSE LET g == get_next_answer(c, id) IN
         IF IsAnswer(g.answer, "AwaitingBasicGetAnswer")
         THEN Ok([g.conn EXCEPT
                     !.finished_get_reqs = Insert(@, g.answer[1].request_id, TRUE)], 0)
         ELSE Err(set_channel_state(g.conn, id, Error), "UnexpectedAnswer")
\* as receive_basic_get_empty, but the Answer stays at the head of awaiting
receive_basic_get_empty_KeepsAnswer(c, id) ==
    IF ~contains_key(c, id) THEN Err(c, "InvalidChannel")
    ELSE IF ~is_connected(c, id) THEN Err(c, "NotConnected")
    ELSE LET g == get_next_answer(c, id) IN
         IF IsAnswer(g.answer, "AwaitingBasicGetAnswer")
         THEN Ok([c EXCEPT
                     !.finished_get_reqs = Insert(@, g.answer[1].request_id, FALSE)], 0)
         ELSE Err(set_channel_state(g.conn, id, Error), "UnexpectedAnswer")
receive_basic_get_empty(c, id) ==
    IF ~contains_key(c, id) THEN Err(c, "InvalidChannel")
    ELSE IF ~is_connected(c, id) THEN Err(c, "NotConnected")
    ELSE LET g == get_next_answer(c, id) IN
         IF IsAnswer(g.answer, "AwaitingBasicGetAnswer")
         THEN Ok([g.conn EXCEPT
                     !.finished_get_reqs = Insert(@, g.answer[1].request_id, FALSE)], 0)
         ELSE Err(set_channel_state(g.conn, id, Error), "UnexpectedAnswer")

(***************************************************************************)
(* basic.ack, basic.reject, basic.nack, basic.recover                      *)
(***************************************************************************)
\* ConsumerSubscriber::drop_prefetched_messages of every subscriber in `subs_of`
RECURSIVE drop_all(_, _)
drop_all(subs, subs_of) ==
    IF subs_of = {} THEN subs
    ELSE LET x == CHOOSE y \in subs_of : TRUE IN
         drop_all([subs EXCEPT ![x].messages = <<>>], subs_of \ {x})

drop_prefetched_messages(c, id) ==
    IF contains_key(c, id)
    THEN LET consumers == UNION {Values(q.consumers) : q \in Values(c.channels[id].queues)}
         IN [c EXCEPT !.subscribers = drop_all(@, {cs.subscriber : cs \in consumers})]
    ELSE c

\* as basic_ack, but every multiple ack drops the prefetched messages
basic_ack_DropsOnMultiple(c, id, delivery_tag, multiple, sink_ok) ==
    IF ~contains_key(c, id) THEN Err(c, "InvalidChannel")
    ELSE IF ~is_connected(c, id) THEN Err(c, "NotConnected")
    ELSE LET res == send_method_frame(c, id, [name |-> "basic.ack", delivery_tag |-> delivery_tag,
                                              multiple |-> multiple], sink_ok) IN
         IF multiple
         THEN [res EXCEPT !.conn = drop_prefetched_messages(@, id)]
         ELSE res
basic_ack(c, id, delivery_tag, multiple, sink_ok) ==
    IF ~contains_key(c, id) THEN Err(c, "InvalidChannel")
    ELSE IF ~is_connected(c, id) THEN Err(c, "NotConnected")
    ELSE LET res == send_method_frame(c, id, [name |-> "basic.ack", delivery_tag |-> delivery_tag,
                                              multiple |-> multiple], sink_ok) IN
         IF multiple /\ delivery_tag = 0
         THEN [res EXCEPT !.conn = drop_prefetched_messages(@, id)]
         ELSE res

\* as basic_reject, but the call takes a request id and waits for a reply
basic_reject_AwaitsReply(c, id, delivery_tag, sink_ok) ==
    IF ~contains_key(c, id) THEN Err(c, "InvalidChannel")
    ELSE IF ~is_connected(c, id) THEN Err(c, "NotConnected")
    ELSE LET s == send_method_frame(c, id, [name |-> "basic.reject", delivery_tag |-> delivery_tag],
                                    sink_ok) IN
         IF s.res # "Ok" THEN s
         ELSE LET r == next_request_id(s.conn) IN
              Ok(push_back_answer(r.conn, id, Answer("AwaitingBasicRejectOk", r.id)), 0)
basic_reject(c, id, delivery_tag, sink_ok) ==
    IF ~contains_key(c, id) THEN Err(c, "InvalidChannel")
    ELSE IF ~is_connected(c, id) THEN Err(c, "NotConnected")
    ELSE send_method_frame(c, id, [name |-> "basic.reject", delivery_tag |-> delivery_tag],
                           sink_ok)

basic_recover_async(c, id, sink_ok) ==
    IF ~contains_key(c, id) THEN Err(c, "InvalidChannel")
    ELSE IF ~is_connected(c, id) THEN Err(c, "NotConnected")
    ELSE LET res == send_method_frame(c, id, Method("basic.recover_async"), sink_ok) IN
         [res EXCEPT !.conn = drop_prefetched_messages(@, id)]

basic_recover(c, id, sink_ok) ==
    IF ~contains_key(c, id) THEN Err(c, "InvalidChannel")
    ELSE IF ~is_connected(c, id) THEN Err(c, "NotConnected")
    ELSE LET s == send_method_frame(c, id, Method("basic.recover"), sink_ok)
             res == IF s.res # "Ok" THEN s
                    ELSE LET r == next_request_id(s.conn) IN
                         Ok([r.conn EXCEPT !.channels[id].awaiting =
                                 Append(@, Answer("AwaitingBasicRecoverOk", r.id))], r.id)
         IN [res EXCEPT !.conn = drop_prefetched_messages(@, id)]

receive_basic_recover_ok(c, id) ==
    IF ~contains_key(c, id) THEN Err(c, "InvalidChannel")
    ELSE IF ~is_connected(c, id) THEN Err(c, "NotConnected")
    ELSE LET g == get_next_answer(c, id) IN
         IF IsAnswer(g.answer, "AwaitingBasicRecoverOk")
         THEN Ok([g.conn EXCEPT !.finished_reqs = Insert(@, g.answer[1].request_id, TRUE)], 0)
         ELSE Err(set_channel_state(g.conn, id, Error), "UnexpectedAnswer")

basic_nack(c, id, delivery_tag, multiple, sink_ok) ==
    IF ~contains_key(c, id) THEN Err(c, "InvalidChannel")
    ELSE IF ~is_connected(c, id) THEN Err(c, "NotConnected")
    ELSE LET res == send_method_frame(c, id, [name |-> "basic.nack", delivery_tag |-> delivery_tag,
                                              multiple |-> multiple], sink_ok) IN
         IF multiple /\ delivery_tag = 0
         THEN [res EXCEPT !.conn = drop_prefetched_messages(@, id)]
         ELSE res

(***************************************************************************)
(* confirm.select and the broker's confirms                                *)
(***************************************************************************)
confirm_select(c, id, sink_ok) ==
    IF ~contains_key(c, id) THEN Err(c, "InvalidChannel")
    ELSE IF ~is_connected(c, id) THEN Err(c, "NotConnected")
    ELSE LET s == send_method_frame(c, id, Method("confirm.select"), sink_ok) IN
         IF s.res # "Ok" THEN s
         ELSE LET r == next_request_id(s.conn) IN
              Ok([r.conn EXCEPT !.channels[id].awaiting =
                      Append(@, Answer("AwaitingConfirmSelectOk", r.id))], r.id)

receive_confirm_select_ok(c, id) ==
    IF ~contains_key(c, id) THEN Err(c, "InvalidChannel")
    ELSE IF ~is_connected(c, id) THEN Err(c, "NotConnected")
    ELSE LET g == get_next_answer(c, id) IN
         IF IsAnswer(g.answer, "AwaitingConfirmSelectOk")
         THEN Ok([g.conn EXCEPT
                     !.finished_reqs = Insert(@, g.answer[1].request_id, TRUE),
                     !.channels[id].confirm = TRUE,
                     !.channels[id].message_count = 1], 0)
         ELSE Err(set_channel_state(g.conn, id, Error), "UnexpectedAnswer")

receive_basic_ack(c, id, delivery_tag, multiple) ==
    IF ~contains_key(c, id) THEN Err(c, "InvalidChannel")
    ELSE IF ~is_connected(c, id) THEN Err(c, "NotConnected")
    ELSE LET g == get_next_answer(c, id) IN
         IF IsAnswer(g.answer, "AwaitingPublishConfirm")
         THEN LET f == [g.conn EXCEPT !.finished_reqs = Insert(@, g.answer[1].request_id, TRUE)]
                  ch == f.channels[id]
                  h == {elem \in ch.unacked : elem <= delivery_tag}
              IN IF ~ch.confirm THEN Ok(f, 0)
                 ELSE IF multiple
                 THEN Ok([f EXCEPT !.channels[id].unacked = ch.unacked \ h,
                                   !.channels[id].acked = ch.acked \cup h], 0)
                 ELSE IF delivery_tag \in ch.unacked
                 THEN Ok([f EXCEPT !.channels[id].unacked = @ \ {delivery_tag},
                                   !.channels[id].acked = @ \cup {delivery_tag}], 0)
                 ELSE Ok(f, 0)
         ELSE Err(set_channel_state(g.conn, id, Error), "UnexpectedAnswer")

receive_basic_nack(c, id, delivery_tag, multiple) ==
    IF ~contains_key(c, id) THEN Err(c, "InvalidChannel")
    ELSE IF ~is_connected(c, id) THEN Err(c, "NotConnected")
    ELSE LET g == get_next_answer(c, id) IN
         IF IsAnswer(g.answer, "AwaitingPublishConfirm")
         THEN LET f == [g.conn EXCEPT !.finished_reqs = Insert(@, g.answer[1].request_id, TRUE)]
                  ch == f.channels[id]
                  h == {elem \in ch.unacked : elem <= delivery_tag}
              IN IF ~ch.confirm THEN Ok(f, 0)
                 ELSE IF multiple
                 THEN Ok([f EXCEPT !.channels[id].unacked = ch.unacked \ h,
                                   !.channels[id].acked = ch.nacked \cup h], 0)
                 ELSE IF delivery_tag \in ch.unacked
                 THEN Ok([f EXCEPT !.channels[id].unacked = @ \ {delivery_tag},
                                   !.channels[id].nacked = @ \cup {delivery_tag}], 0)
                 ELSE Ok(f, 0)
         ELSE Err(set_channel_state(g.conn, id, Error), "UnexpectedAnswer")

(***************************************************************************)
(* Content frames: the header and the body chunks that follow              *)
(* basic.deliver and basic.get_ok.                                         *)
(***************************************************************************)
\* Consumer::new_delivery_complete: hands current_message to the subscriber
new_delivery_complete(c, id, queue, consumer_tag) ==
    LET queues == c.channels[id].queues IN
    IF Has(queues, queue) /\ Has(Get(queues, queue).consumers, consumer_tag)
       /\ Get(Get(queues, queue).consumers, consumer_tag).current_message # None
    THEN LET cs == Get(Get(queues, queue).consumers, consumer_tag)
             take(q) == IF q.name = queue
                        THEN [q EXCEPT !.consumers =
                                 Insert(@, consumer_tag, [cs EXCEPT !.current_message = None])]
                        ELSE q
         IN [c EXCEPT !.channels[id].queues = {<<kv[1], take(kv[2])>> : kv \in @},
                      !.subscribers[cs.subscriber].messages =
                          Append(@, cs.current_message[1].delivery_tag)]
    ELSE c

\* Delivery::receive_content on the pending message of the channel's sub-state
receive_content(c, id, queue, consumer_tag, k) ==
    LET grow(d) == [d EXCEPT !.data = @ + k]
        fill(q) ==
            IF q.name # queue THEN q
            ELSE IF consumer_tag = None
            THEN [q EXCEPT !.current_get_message =
                     IF @ = None THEN @ ELSE Some([@[1] EXCEPT !.delivery = grow(@)])]
            ELSE [q EXCEPT !.consumers =
                     IF Has(@, consumer_tag[1])
                        /\ Get(@, consumer_tag[1]).current_message # None
                     THEN Insert(@, consumer_tag[1],
                              [Get(@, consumer_tag[1]) EXCEPT
                                  !.current_message = Some(grow(@[1]))])
                     ELSE @]
    IN [c EXCEPT !.channels[id].queues = {<<kv[1], fill(kv[2])>> : kv \in @}]

\* the message is complete: surface it and return to Connected
content_complete(c, id, queue, consumer_tag) ==
    set_channel_state(
        IF consumer_tag = None THEN c
        ELSE new_delivery_complete(c, id, queue, consumer_tag[1]),
        id, Connected)

handle_content_header_frame(c, id, size) ==
    IF ~contains_key(c, id) THEN Err(c, "InvalidChannel")
    ELSE LET st == c.channels[id].state IN
         IF st.tag # "WillReceiveContent"
         THEN Err(set_channel_state(c, id, Error), "InvalidState")
         ELSE IF size = 0 THEN Ok(content_complete(c, id, st.queue, st.consumer_tag), 0)
         ELSE Ok(set_channel_state(c, id,
                     ReceivingContent(st.queue, st.consumer_tag, size)), 0)

handle_body_frame(c, id, k) ==
    IF ~contains_key(c, id) THEN Err(c, "InvalidChannel")
    ELSE LET st == c.channels[id].state IN
         IF st.tag # "ReceivingContent" \/ k > st.size
         THEN Err(set_channel_state(c, id, Error), "InvalidState")
         ELSE LET d == receive_content(c, id, st.queue, st.consumer_tag, k) IN
              IF st.size = k THEN Ok(content_complete(d, id, st.queue, st.consumer_tag), 0)
              ELSE Ok(set_channel_state(d, id,
                          ReceivingContent(st.queue, st.consumer_tag, st.size - k)), 0)

(***************************************************************************)
(* The dispatcher.  sink_ok and last_queue are the environment's part of   *)
(* the call: whether the sink accepts a frame and the map's order.         *)
(***************************************************************************)
HandledMethods ==
    {"channel.open_ok", "channel.flow", "channel.flow_ok", "channel.close",
     "channel.close_ok", "access.request_ok", "exchange.declare_ok",
     "exchange.delete_ok", "exchange.bind_ok", "exchange.unbind_ok",
     "queue.declare_ok", "queue.bind_ok", "queue.purge_ok", "queue.delete_ok",
     "queue.unbind_ok", "basic.qos_ok", "basic.consume_ok", "basic.cancel_ok",
     "basic.deliver", "basic.get_ok", "basic.get_empty", "basic.recover_ok",
     "confirm.select_ok", "basic.ack", "basic.nack"}

\* as receive_method, but a method the client must not receive fails the channel
receive_method_FailsChannel(c, id, method, sink_ok, last_queue) ==
    CASE method.name = "channel.open_ok" -> receive_channel_open_ok(c, id)
      [] method.name = "channel.flow" -> receive_channel_flow(c, id, method.active, sink_ok)
      [] method.name = "channel.flow_ok" -> receive_channel_flow_ok(c, id, method.active)
      [] method.name = "channel.close" -> receive_channel_close(c, id, sink_ok)
      [] method.name = "channel.close_ok" -> receive_channel_close_ok(c, id)
      [] method.name = "access.request_ok" -> receive_access_request_ok(c, id)
      [] method.name = "exchange.declare_ok" -> receive_exchange_declare_ok(c, id)
      [] method.name = "exchange.delete_ok" -> receive_exchange_delete_ok(c, id)
      [] method.name = "exchange.bind_ok" -> receive_exchange_bind_ok(c, id)
      [] method.name = "exchange.unbind_ok" -> receive_exchange_unbind_ok(c, id)
      [] method.name = "queue.declare_ok" -> receive_queue_declare_ok(c, id, method)
      [] method.name = "queue.bind_ok" -> receive_queue_bind_ok(c, id)
      [] method.name = "queue.purge_ok" -> receive_queue_purge_ok(c, id)
      [] method.name = "queue.delete_ok" -> receive_queue_delete_ok(c, id)
      [] method.name = "queue.unbind_ok" -> receive_queue_unbind_ok(c, id)
      [] method.name = "basic.qos_ok" -> receive_basic_qos_ok(c, id)
      [] method.name = "basic.consume_ok" -> receive_basic_consume_ok(c, id, method.consumer_tag)
      [] method.name = "basic.cancel_ok" -> receive_basic_cancel_ok(c, id, method.consumer_tag)
      [] method.name = "basic.deliver" -> receive_basic_deliver(c, id, method, last_queue)
      [] method.name = "basic.get_ok" -> receive_basic_get_ok(c, id, method)
      [] method.name = "basic.get_empty" -> receive_basic_get_empty(c, id)
      [] method.name = "basic.recover_ok" -> receive_basic_recover_ok(c, id)
      [] method.name = "confirm.select_ok" -> receive_confirm_select_ok(c, id)
      [] method.name = "basic.ack" ->
             receive_basic_ack(c, id, method.delivery_tag, method.multiple)
      [] method.name = "basic.nack" ->
             receive_basic_nack(c, id, method.delivery_tag, method.multiple)
      [] OTHER -> [conn |-> set_channel_state(c, id, Error), res |-> "InvalidMethod",
                   val |-> method]
receive_method(c, id, method, sink_ok, last_queue) ==
    CASE method.name = "channel.open_ok" -> receive_channel_open_ok(c, id)
      [] method.name = "channel.flow" -> receive_channel_flow(c, id, method.active, sink_ok)
      [] method.name = "channel.flow_ok" -> receive_channel_flow_ok(c, id, method.active)
      [] method.name = "channel.close" -> receive_channel_close(c, id, sink_ok)
      [] method.name = "channel.close_ok" -> receive_channel_close_ok(c, id)
      [] method.name = "access.request_ok" -> receive_access_request_ok(c, id)
      [] method.name = "exchange.declare_ok" -> receive_exchange_declare_ok(c, id)
      [] method.name = "exchange.delete_ok" -> receive_exchange_delete_ok(c, id)
      [] method.name = "exchange.bind_ok" -> receive_exchange_bind_ok(c, id)
      [] method.name = "exchange.unbind_ok" -> receive_exchange_unbind_ok(c, id)
      [] method.name = "queue.declare_ok" -> receive_queue_declare_ok(c, id, method)
      [] method.name = "queue.bind_ok" -> receive_queue_bind_ok(c, id)
      [] method.name = "queue.purge_ok" -> receive_queue_purge_ok(c, id)
      [] method.name = "queue.delete_ok" -> receive_queue_delete_ok(c, id)
      [] method.name = "queue.unbind_ok" -> receive_queue_unbind_ok(c, id)
      [] method.name = "basic.qos_ok" -> receive_basic_qos_ok(c, id)
      [] method.name = "basic.consume_ok" -> receive_basic_consume_ok(c, id, method.consumer_tag)
      [] method.name = "basic.cancel_ok" -> receive_basic_cancel_ok(c, id, method.consumer_tag)
      [] method.name = "basic.deliver" -> receive_basic_deliver(c, id, method, last_queue)
      [] method.name = "basic.get_ok" -> receive_basic_get_ok(c, id, method)
      [] method.name = "basic.get_empty" -> receive_basic_get_empty(c, id)
      [] method.name = "basic.recover_ok" -> receive_basic_recover_ok(c, id)
      [] method.name = "confirm.select_ok" -> receive_confirm_select_ok(c, id)
      [] method.name = "basic.ack" ->
             receive_basic_ack(c, id, method.delivery_tag, method.multiple)
      [] method.name = "basic.nack" ->
             receive_basic_nack(c, id, method.delivery_tag, method.multiple)
      [] OTHER -> [conn |-> c, res |-> "InvalidMethod", val |-> method]

(***************************************************************************)
(* The state machine.                                                      *)
(***************************************************************************)
\* the issuers that return a RequestId
RequestIssuers ==
    {"channel_open", "channel_flow", "channel_close", "access_request",
     "exchange_declare", "exchange_delete", "exchange_bind", "exchange_unbind",
     "queue_declare", "queue_bind", "queue_purge", "queue_delete", "queue_unbind",
     "basic_qos", "basic_consume", "basic_cancel", "basic_get", "basic_recover",
     "confirm_select"}
\* the issuers that return nothing
PlainIssuers == {"basic_ack", "basic_reject", "basic_nack", "basic_recover_async"}
Issuers == RequestIssuers \cup PlainIssuers \cup {"basic_publish"}
ContentHandlers == {"handle_content_header_frame", "handle_body_frame"}

ConsumeFlags == {<<FALSE, FALSE, FALSE, FALSE>>, <<TRUE, FALSE, TRUE, FALSE>>}
QosArgs == {<<1, 2, TRUE>>, <<1, 2, FALSE>>}
DeclareOks == [name : {"queue.declare_ok"}, queue : QueueNames,
               message_count : Counts, consumer_count : {0}]
Delivers == [name : {"basic.deliver"}, consumer_tag : ConsumerTags,
             delivery_tag : {1, 2}, exchange : Exchanges,
             routing_key : RoutingKeys, redelivered : {TRUE}]
GetOks == [name : {"basic.get_ok"}, delivery_tag : {1}, exchange : Exchanges,
           routing_key : RoutingKeys, redelivered : {FALSE}, message_count : {1}]
\* methods the client must not receive
InvalidMethods == {"channel.open", "basic.publish", "tx.select_ok"}

InitWith(ids) ==
    /\ channels = [id \in ids |-> NewChannel(id)]
    /\ request_index = 1
    /\ finished_reqs = EmptyMap
    /\ finished_get_reqs = EmptyMap
    /\ generated_names = EmptyMap
    /\ prefetch_size = 0
    /\ prefetch_count = 0
    /\ subscribers = [s \in SubscriberIds |-> NewSubscriber]
    /\ returned = {}
    /\ published = [id \in ChannelIds |-> <<>>]

\* one call of operation op on channel id, with result r
Step(op, id, r) ==
    /\ channels' = r.conn.channels
    /\ request_index' = r.conn.request_index
    /\ finished_reqs' = r.conn.finished_reqs
    /\ finished_get_reqs' = r.conn.finished_get_reqs
    /\ generated_names' = r.conn.generated_names
    /\ prefetch_size' = r.conn.prefetch_size
    /\ prefetch_count' = r.conn.prefetch_count
    /\ subscribers' = r.conn.subscribers
    /\ returned' = IF op \in RequestIssuers /\ r.res = "Ok"
                   THEN returned \cup {r.val} ELSE returned
    /\ published' = IF op = "basic_publish" /\ r.res = "Ok"
                    THEN [published EXCEPT ![id] = Append(@, r.val)] ELSE published

\* an issuer call is explored while it hands out no request id beyond cap
Issue(cap, op, id, r) == r.conn.request_index <= cap + 1 /\ Step(op, id, r)


\* the sink is asked only by a call that passed its guard, and only then may
\* it refuse the frame
Sink(id) ==
    IF contains_key(Conn, id) /\ is_connected(Conn, id) THEN BOOLEAN ELSE {TRUE}
SinkOpen(id) ==
    IF contains_key(Conn, id) /\ check_state(Conn, id, Initial) = "Ok"
    THEN BOOLEAN ELSE {TRUE}

ChannelOpen(cap) ==
    \E id \in CallIds : \E ok \in SinkOpen(id) :
        Issue(cap, "channel_open", id, channel_open(Conn, id, ok))
ChannelFlow(cap) ==
    \E id \in CallIds, active \in BOOLEAN : \E ok \in Sink(id) :
        Issue(cap, "channel_flow", id, channel_flow(Conn, id, active, ok))
ChannelClose(cap) ==
    \E id \in CallIds : \E ok \in Sink(id) :
        Issue(cap, "channel_close", id, channel_close(Conn, id, ok))
AccessRequest(cap) ==
    \E id \in CallIds : \E ok \in Sink(id) :
        Issue(cap, "access_request", id, access_request(Conn, id, ok))
ExchangeDeclare(cap) ==
    \E id \in CallIds : \E ok \in Sink(id) :
        Issue(cap, "exchange_declare", id, exchange_declare(Conn, id, ok))
ExchangeDelete(cap) ==
    \E id \in CallIds : \E ok \in Sink(id) :
        Issue(cap, "exchange_delete", id, exchange_delete(Conn, id, ok))
ExchangeBind(cap) ==
    \E id \in CallIds : \E ok \in Sink(id) :
        Issue(cap, "exchange_bind", id, exchange_bind(Conn, id, ok))
ExchangeUnbind(cap) ==
    \E id \in CallIds : \E ok \in Sink(id) :
        Issue(cap, "exchange_unbind", id, exchange_unbind(Conn, id, ok))
QueueDeclare(cap) ==
    \E id \in CallIds, q \in DeclareNames : \E ok \in Sink(id) :
        Issue(cap, "queue_declare", id, queue_declare(Conn, id, q, ok))
QueueBind(cap) ==
    \E id \in CallIds, q \in QueueNames, e \in Exchanges, k \in RoutingKeys : \E ok \in Sink(id) :
        Issue(cap, "queue_bind", id, queue_bind(Conn, id, q, e, k, FALSE, ok))
QueuePurge(cap) ==
    \E id \in CallIds, q \in QueueNames : \E ok \in Sink(id) :
        Issue(cap, "queue_purge", id, queue_purge(Conn, id, q, ok))
QueueDelete(cap) ==
    \E id \in CallIds, q \in QueueNames : \E ok \in Sink(id) :
        Issue(cap, "queue_delete", id, queue_delete(Conn, id, q, ok))
QueueUnbind(cap) ==
    \E id \in CallIds, q \in QueueNames, e \in Exchanges, k \in RoutingKeys : \E ok \in Sink(id) :
        Issue(cap, "queue_unbind", id, queue_unbind(Conn, id, q, e, k, ok))
BasicQos(cap) ==
    \E id \in CallIds, a \in QosArgs : \E ok \in Sink(id) :
        Issue(cap, "basic_qos", id, basic_qos(Conn, id, a[1], a[2], a[3], ok))
BasicConsume(cap) ==
    \E id \in CallIds, q \in QueueNames, t \in ConsumerTags, f \in ConsumeFlags,
       sub \in SubscriberIds : \E ok \in Sink(id) :
        Issue(cap, "basic_consume", id, basic_consume(Conn, id, q, t, f, sub, ok))
BasicCancel(cap) ==
    \E id \in CallIds, t \in ConsumerTags : \E ok \in Sink(id) :
        Issue(cap, "basic_cancel", id, basic_cancel(Conn, id, t, ok))
BasicPublish(cap) ==
    \E id \in CallIds : \E ok \in Sink(id) :
        Issue(cap, "basic_publish", id, basic_publish(Conn, id, ok))
BasicGet(cap) ==
    \E id \in CallIds, q \in QueueNames : \E ok \in Sink(id) :
        Issue(cap, "basic_get", id, basic_get(Conn, id, q, ok))
BasicAck ==
    \E id \in CallIds, t \in AckTags, m \in BOOLEAN : \E ok \in Sink(id) :
        Step("basic_ack", id, basic_ack(Conn, id, t, m, ok))
BasicReject ==
    \E id \in CallIds, t \in AckTags : \E ok \in Sink(id) :
        Step("basic_reject", id, basic_reject(Conn, id, t, ok))
BasicRecoverAsync ==
    \E id \in CallIds : \E ok \in Sink(id) :
        Step("basic_recover_async", id, basic_recover_async(Conn, id, ok))
BasicRecover(cap) ==
    \E id \in CallIds : \E ok \in Sink(id) :
        Issue(cap, "basic_recover", id, basic_recover(Conn, id, ok))
BasicNack ==
    \E id \in CallIds, t \in AckTags, m \in BOOLEAN : \E ok \in Sink(id) :
        Step("basic_nack", id, basic_nack(Conn, id, t, m, ok))
ConfirmSelect(cap) ==
    \E id \in CallIds : \E ok \in Sink(id) :
        Issue(cap, "confirm_select", id, confirm_select(Conn, id, ok))

ReceiveChannelOpenOk ==
    \E id \in CallIds :
        Step("receive_channel_open_ok", id,
             receive_method(Conn, id, Method("channel.open_ok"),
                            TRUE, ""))
ReceiveChannelFlow ==
    \E id \in CallIds, active \in BOOLEAN, ok \in BOOLEAN :
        Step("receive_channel_flow", id,
             receive_method(Conn, id, [name |-> "channel.flow", active |-> active],
                            ok, ""))
ReceiveChannelFlowOk ==
    \E id \in CallIds, active \in BOOLEAN :
        Step("receive_channel_flow_ok", id,
             receive_method(Conn, id, [name |-> "channel.flow_ok", active |-> active],
                            TRUE, ""))
ReceiveChannelClose ==
    \E id \in CallIds, ok \in BOOLEAN :
        Step("receive_channel_close", id,
             receive_method(Conn, id, Method("channel.close"),
                            ok, ""))
ReceiveChannelCloseOk ==
    \E id \in CallIds :
        Step("receive_channel_close_ok", id,
             receive_method(Conn, id, Method("channel.close_ok"),
                            TRUE, ""))
ReceiveAccessRequestOk ==
    \E id \in CallIds :
        Step("receive_access_request_ok", id,
             receive_method(Conn, id, Method("access.request_ok"),
                            TRUE, ""))
ReceiveExchangeDeclareOk ==
    \E id \in CallIds :
        Step("receive_exchange_declare_ok", id,
             receive_method(Conn, id, Method("exchange.declare_ok"),
                            TRUE, ""))
ReceiveExchangeDeleteOk ==
    \E id \in CallIds :
        Step("receive_exchange_delete_ok", id,
             receive_method(Conn, id, Method("exchange.delete_ok"),
                            TRUE, ""))
ReceiveExchangeBindOk ==
    \E id \in CallIds :
        Step("receive_exchange_bind_ok", id,
             receive_method(Conn, id, Method("exchange.bind_ok"),
                            TRUE, ""))
ReceiveExchangeUnbindOk ==
    \E id \in CallIds :
        Step("receive_exchange_unbind_ok", id,
             receive_method(Conn, id, Method("exchange.unbind_ok"),
                            TRUE, ""))
ReceiveQueueDeclareOk ==
    \E id \in CallIds, m \in DeclareOks :
        Step("receive_queue_declare_ok", id,
             receive_method(Conn, id, m,
                            TRUE, ""))
ReceiveQueueBindOk ==
    \E id \in CallIds :
        Step("receive_queue_bind_ok", id,
             receive_method(Conn, id, Method("queue.bind_ok"),
                            TRUE, ""))
ReceiveQueuePurgeOk ==
    \E id \in CallIds :
        Step("receive_queue_purge_ok", id,
             receive_method(Conn, id, Method("queue.purge_ok"),
                            TRUE, ""))
ReceiveQueueDeleteOk ==
    \E id \in CallIds :
        Step("receive_queue_delete_ok", id,
             receive_method(Conn, id, Method("queue.delete_ok"),
                            TRUE, ""))
ReceiveQueueUnbindOk ==
    \E id \in CallIds :
        Step("receive_queue_unbind_ok", id,
             receive_method(Conn, id, Method("queue.unbind_ok"),
                            TRUE, ""))
ReceiveBasicQosOk ==
    \E id \in CallIds :
        Step("receive_basic_qos_ok", id,
             receive_method(Conn, id, Method("basic.qos_ok"),
                            TRUE, ""))
ReceiveBasicConsumeOk ==
    \E id \in CallIds, t \in ConsumerTags :
        Step("receive_basic_consume_ok", id,
             receive_method(Conn, id, [name |-> "basic.consume_ok", consumer_tag |-> t],
                            TRUE, ""))
ReceiveBasicCancelOk ==
    \E id \in CallIds, t \in ConsumerTags :
        Step("receive_basic_cancel_ok", id,
             receive_method(Conn, id, [name |-> "basic.cancel_ok", consumer_tag |-> t],
                            TRUE, ""))
\* the orders in which the map of channel id's queues may end its iteration
LastQueues(c, id) ==
    IF contains_key(c, id) /\ c.channels[id].queues # EmptyMap
    THEN Keys(c.channels[id].queues) ELSE {""}
\* a delivery is explored while every subscriber has room for it
ReceiveBasicDeliver ==
    \E id \in CallIds, m \in Delivers :
        /\ \A s \in SubscriberIds : Len(subscribers[s].messages) < MaxPrefetched
        /\ \E lq \in LastQueues(Conn, id) :
               Step("receive_basic_deliver", id,
                    receive_method(Conn, id, m,
                                   TRUE, lq))
ReceiveBasicGetOk ==
    \E id \in CallIds, m \in GetOks :
        Step("receive_basic_get_ok", id,
             receive_method(Conn, id, m,
                            TRUE, ""))
ReceiveBasicGetEmpty ==
    \E id \in CallIds :
        Step("receive_basic_get_empty", id,
             receive_method(Conn, id, Method("basic.get_empty"),
                            TRUE, ""))
ReceiveBasicRecoverOk ==
    \E id \in CallIds :
        Step("receive_basic_recover_ok", id,
             receive_method(Conn, id, Method("basic.recover_ok"),
                            TRUE, ""))
ReceiveConfirmSelectOk ==
    \E id \in CallIds :
        Step("receive_confirm_select_ok", id,
             receive_method(Conn, id, Method("confirm.select_ok"),
                            TRUE, ""))
ReceiveBasicAck ==
    \E id \in CallIds, t \in DeliveryTags, m \in BOOLEAN :
        Step("receive_basic_ack", id,
             receive_method(Conn, id, [name |-> "basic.ack", delivery_tag |-> t, multiple |-> m],
                            TRUE, ""))
ReceiveBasicNack ==
    \E id \in CallIds, t \in DeliveryTags, m \in BOOLEAN :
        Step("receive_basic_nack", id,
             receive_method(Conn, id, [name |-> "basic.nack", delivery_tag |-> t, multiple |-> m],
                            TRUE, ""))
ReceiveInvalidMethod ==
    \E id \in CallIds, n \in InvalidMethods :
        Step("receive_method", id,
             receive_method(Conn, id, Method(n),
                            TRUE, ""))

\* content frames reach a channel that is waiting for them
ContentHeader ==
    \E id \in DOMAIN channels, size \in 0..MaxBody :
        /\ channels[id].state.tag = "WillReceiveContent"
        /\ Step("handle_content_header_frame", id,
                handle_content_header_frame(Conn, id, size))
ContentBody ==
    \E id \in DOMAIN channels, k \in 1..MaxBody :
        /\ channels[id].state.tag = "ReceivingContent"
        /\ k <= channels[id].state.size
        /\ Step("handle_body_frame", id, handle_body_frame(Conn, id, k))

Issuing(cap) ==
    \/ ChannelOpen(cap) \/ ChannelFlow(cap) \/ ChannelClose(cap) \/ AccessRequest(cap)
    \/ ExchangeDeclare(cap) \/ ExchangeDelete(cap) \/ ExchangeBind(cap)
    \/ ExchangeUnbind(cap)
    \/ QueueDeclare(cap) \/ QueueBind(cap) \/ QueuePurge(cap) \/ QueueDelete(cap)
    \/ QueueUnbind(cap)
    \/ BasicQos(cap) \/ BasicConsume(cap) \/ BasicCancel(cap) \/ BasicPublish(cap)
    \/ BasicGet(cap) \/ BasicRecover(cap) \/ ConfirmSelect(cap)
    \/ BasicAck \/ BasicReject \/ BasicRecoverAsync \/ BasicNack

Receiving ==
    \/ ReceiveChannelOpenOk \/ ReceiveChannelFlow \/ ReceiveChannelFlowOk
    \/ ReceiveChannelClose \/ ReceiveChannelCloseOk \/ ReceiveAccessRequestOk
    \/ ReceiveExchangeDeclareOk \/ ReceiveExchangeDeleteOk
    \/ ReceiveExchangeBindOk \/ ReceiveExchangeUnbindOk
    \/ ReceiveQueueDeclareOk \/ ReceiveQueueBindOk \/ ReceiveQueuePurgeOk
    \/ ReceiveQueueDeleteOk \/ ReceiveQueueUnbindOk
    \/ ReceiveBasicQosOk \/ ReceiveBasicConsumeOk \/ ReceiveBasicCancelOk
    \/ ReceiveBasicDeliver \/ ReceiveBasicGetOk \/ ReceiveBasicGetEmpty
    \/ ReceiveBasicRecoverOk \/ ReceiveConfirmSelectOk
    \/ ReceiveBasicAck \/ ReceiveBasicNack \/ ReceiveInvalidMethod
    \/ ContentHeader \/ ContentBody

\* two channels, every operation
Init == InitWith(ChannelIds)
Next == Issuing(MaxReq) \/ Receiving
Spec == Init /\ [][Next]_vars

\* one channel, every operation, longer runs
InitOne == InitWith({1})
NextOne == Issuing(MaxReqOne) \/ Receiving
SpecOne == InitOne /\ [][NextOne]_vars

\* one channel with publisher confirms: open, confirm.select, publishes and
\* the broker's acks and nacks, and a queue.declare between them
InitConfirm == InitWith({1})
NextConfirm ==
    \/ ChannelOpen(MaxReqConfirm) \/ ReceiveChannelOpenOk
    \/ ConfirmSelect(MaxReqConfirm) \/ ReceiveConfirmSelectOk
    \/ BasicPublish(MaxReqConfirm) \/ ReceiveBasicAck \/ ReceiveBasicNack
    \/ QueueDeclare(MaxReqConfirm) \/ ReceiveQueueDeclareOk
SpecConfirm == InitConfirm /\ [][NextConfirm]_vars

(***************************************************************************)
(* Every call a caller or the broker can make, for the properties that     *)
(* speak of every issuer or every inbound method.                          *)
(***************************************************************************)
IssuerCalls ==
    [op : {"channel_open", "channel_close", "access_request", "exchange_declare",
           "exchange_delete", "exchange_bind", "exchange_unbind", "basic_publish",
           "basic_recover", "basic_recover_async", "confirm_select"}]
    \cup [op : {"channel_flow"}, active : BOOLEAN]
    \cup [op : {"queue_declare", "queue_purge", "queue_delete", "basic_get"},
          queue : QueueNames]
    \cup [op : {"queue_bind", "queue_unbind"}, queue : QueueNames,
          exchange : Exchanges, routing_key : RoutingKeys]
    \cup [op : {"basic_qos"}, args : QosArgs]
    \cup [op : {"basic_consume"}, queue : QueueNames, consumer_tag : ConsumerTags,
          flags : ConsumeFlags, subscriber : SubscriberIds]
    \cup [op : {"basic_cancel"}, consumer_tag : ConsumerTags]
    \cup [op : {"basic_ack", "basic_nack"}, delivery_tag : AckTags, multiple : BOOLEAN]
    \cup [op : {"basic_reject"}, delivery_tag : AckTags]

issue(c, id, call, sink_ok) ==
    CASE call.op = "channel_open" -> channel_open(c, id, sink_ok)
      [] call.op = "channel_flow" -> channel_flow(c, id, call.active, sink_ok)
      [] call.op = "channel_close" -> channel_close(c, id, sink_ok)
      [] call.op = "access_request" -> access_request(c, id, sink_ok)
      [] call.op = "exchange_declare" -> exchange_declare(c, id, sink_ok)
      [] call.op = "exchange_delete" -> exchange_delete(c, id, sink_ok)
      [] call.op = "exchange_bind" -> exchange_bind(c, id, sink_ok)
      [] call.op = "exchange_unbind" -> exchange_unbind(c, id, sink_ok)
      [] call.op = "queue_declare" -> queue_declare(c, id, call.queue, sink_ok)
      [] call.op = "queue_bind" ->
             queue_bind(c, id, call.queue, call.exchange, call.routing_key, FALSE, sink_ok)
      [] call.op = "queue_purge" -> queue_purge(c, id, call.queue, sink_ok)
      [] call.op = "queue_delete" -> queue_delete(c, id, call.queue, sink_ok)
      [] call.op = "queue_unbind" ->
             queue_unbind(c, id, call.queue, call.exchange, call.routing_key, sink_ok)
      [] call.op = "basic_qos" ->
             basic_qos(c, id, call.args[1], call.args[2], call.args[3], sink_ok)
      [] call.op = "basic_consume" ->
             basic_consume(c, id, call.queue, call.consumer_tag, call.flags,
                           call.subscriber, sink_ok)
      [] call.op = "basic_cancel" -> basic_cancel(c, id, call.consumer_tag, sink_ok)
      [] call.op = "basic_publish" -> basic_publish(c, id, sink_ok)
      [] call.op = "basic_get" -> basic_get(c, id, call.queue, sink_ok)
      [] call.op = "basic_ack" -> basic_ack(c, id, call.delivery_tag, call.multiple, sink_ok)
      [] call.op = "basic_reject" -> basic_reject(c, id, call.delivery_tag, sink_ok)
      [] call.op = "basic_recover_async" -> basic_recover_async(c, id, sink_ok)
      [] call.op = "basic_recover" -> basic_recover(c, id, sink_ok)
      [] call.op = "basic_nack" -> basic_nack(c, id, call.delivery_tag, call.multiple, sink_ok)
      [] call.op = "confirm_select" -> confirm_select(c, id, sink_ok)

\* the replies that consume an Answer, and the Answer each expects
ReplyMethods ==
    [name : {"channel.open_ok", "channel.close_ok", "access.request_ok",
             "exchange.declare_ok", "exchange.delete_ok", "exchange.bind_ok",
             "exchange.unbind_ok", "queue.bind_ok", "queue.purge_ok",
             "queue.delete_ok", "queue.unbind_ok", "basic.qos_ok",
             "basic.get_empty", "basic.recover_ok", "confirm.select_ok"}]
    \cup [name : {"channel.flow_ok"}, active : BOOLEAN]
    \cup DeclareOks \cup GetOks
    \cup [name : {"basic.consume_ok", "basic.cancel_ok"}, consumer_tag : ConsumerTags]
ConfirmMethods ==
    [name : {"basic.ack", "basic.nack"}, delivery_tag : DeliveryTags, multiple : BOOLEAN]
InboundMethods ==
    ReplyMethods \cup ConfirmMethods \cup Delivers
    \cup [name : {"channel.flow"}, active : BOOLEAN]
    \cup [name : {"channel.close"}]

Expected(name) ==
    CASE name = "channel.open_ok" -> "AwaitingChannelOpenOk"
      [] name = "channel.flow_ok" -> "AwaitingChannelFlowOk"
      [] name = "channel.close_ok" -> "AwaitingChannelCloseOk"
      [] name = "access.request_ok" -> "AwaitingAccessRequestOk"
      [] name = "exchange.declare_ok" -> "AwaitingExchangeDeclareOk"
      [] name = "exchange.delete_ok" -> "AwaitingExchangeDeleteOk"
      [] name = "exchange.bind_ok" -> "AwaitingExchangeBindOk"
      [] name = "exchange.unbind_ok" -> "AwaitingExchangeUnbindOk"
      [] name = "queue.declare_ok" -> "AwaitingQueueDeclareOk"
      [] name = "queue.bind_ok" -> "AwaitingQueueBindOk"
      [] name = "queue.purge_ok" -> "AwaitingQueuePurgeOk"
      [] name = "queue.delete_ok" -> "AwaitingQueueDeleteOk"
      [] name = "queue.unbind_ok" -> "AwaitingQueueUnbindOk"
      [] name = "basic.qos_ok" -> "AwaitingBasicQosOk"
      [] name = "basic.consume_ok" -> "AwaitingBasicConsumeOk"
      [] name = "basic.cancel_ok" -> "AwaitingBasicCancelOk"
      [] name = "basic.get_ok" -> "AwaitingBasicGetAnswer"
      [] name = "basic.get_empty" -> "AwaitingBasicGetAnswer"
      [] name = "basic.recover_ok" -> "AwaitingBasicRecoverOk"
      [] name = "confirm.select_ok" -> "AwaitingConfirmSelectOk"
      [] name = "basic.ack" -> "AwaitingPublishConfirm"
      [] name = "basic.nack" -> "AwaitingPublishConfirm"
      [] OTHER -> "none"

StateTag(id) == channels[id].state.tag
Awaiting(id) == channels[id].awaiting
HeadIs(id, kind) == Awaiting(id) # <<>> /\ Head(Awaiting(id)).kind = kind
\* the state a reply's handler requires before it looks at awaiting
PassesPreCheck(id, m) ==
    IF m.name = "channel.open_ok" THEN StateTag(id) = "Initial"
    ELSE StateTag(id) = "Connected"
\* the dispatcher's result for method m on channel id, the sink accepting
Dispatch(id, m) == receive_method(Conn, id, m, TRUE, "")

(***************************************************************************)
(* C1: a reply handler that finds awaiting empty, or another Answer        *)
(* variant than its own at the head, on a channel that passes its state    *)
(* check, returns UnexpectedAnswer and leaves the channel in Error.        *)
(***************************************************************************)
C1_UnexpectedAnswer ==
    \A id \in DOMAIN channels, m \in ReplyMethods :
        (PassesPreCheck(id, m) /\ ~HeadIs(id, Expected(m.name)))
            => LET r == Dispatch(id, m) IN
               r.res = "UnexpectedAnswer" /\ r.conn.channels[id].state = Error

\* a queue.declare is pending and queue.bind_ok arrives first
C1_Witness ==
    \E id \in DOMAIN channels :
        /\ StateTag(id) = "Connected"
        /\ HeadIs(id, "AwaitingQueueDeclareOk")
        /\ Dispatch(id, Method("queue.bind_ok")).res = "UnexpectedAnswer"
        /\ Dispatch(id, Method("queue.bind_ok")).conn.channels[id].state = Error

AfterState(r, id) == r.conn.channels[id].state
Terminal(id) == StateTag(id) \in {"Closed", "Error"}
GuardErrors == {"InvalidChannel", "NotConnected", "InvalidState"}
\* a terminal channel under one call: it stays terminal, Error stays Error,
\* and Closed moves (to Error) only where mayMove allows
StaysTerminal(r, id, mayMove) ==
    /\ AfterState(r, id).tag \in {"Closed", "Error"}
    /\ StateTag(id) = "Error" => AfterState(r, id) = Error
    /\ AfterState(r, id) # channels[id].state => mayMove

(***************************************************************************)
(* C4 as stated: once a channel is Closed or Error, no step changes its    *)
(* state again.                                                            *)
(***************************************************************************)
C4_StateNeverChanges ==
    [][\A id \in DOMAIN channels :
          Terminal(id) => channels'[id].state = channels[id].state]_vars

(***************************************************************************)
(* C4, amended: on a Closed or Error channel every issuer call is          *)
(* rejected and the channel never leaves {Closed, Error}; an Error channel *)
(* stays Error, and a Closed channel keeps its state under every issuer    *)
(* and dispatcher call except channel_open and channel.open_ok, whose      *)
(* state check moves it to Error.                                          *)
(***************************************************************************)
C4_Terminal ==
    \A id \in DOMAIN channels :
        Terminal(id) =>
            /\ \A call \in IssuerCalls, ok \in BOOLEAN :
                   LET r == issue(Conn, id, call, ok) IN
                   /\ r.res \in GuardErrors
                   /\ StaysTerminal(r, id, call.op = "channel_open")
            /\ \A m \in InboundMethods, ok \in BOOLEAN :
                   LET r == receive_method(Conn, id, m, ok, "") IN
                   /\ r.res # "Ok"
                   /\ StaysTerminal(r, id, m.name = "channel.open_ok")

\* a Closed channel on which channel_open is rejected and leaves Error behind
C4_Witness ==
    \E id \in DOMAIN channels :
        /\ StateTag(id) = "Closed"
        /\ channel_open(Conn, id, TRUE).res = "InvalidState"
        /\ AfterState(channel_open(Conn, id, TRUE), id) = Error
        /\ basic_publish(Conn, id, TRUE).res = "NotConnected"
        /\ AfterState(basic_publish(Conn, id, TRUE), id) = Closed

(***************************************************************************)
(* C5 as stated, for a Closed or Error channel: every inbound method       *)
(* leaves the channel in Error and modifies nothing but the state.         *)
(***************************************************************************)
C5_InboundMovesToError ==
    \A id \in DOMAIN channels, m \in InboundMethods, ok \in BOOLEAN :
        Terminal(id) =>
            receive_method(Conn, id, m, ok, "").conn
                = [Conn EXCEPT !.channels[id].state = Error]

(***************************************************************************)
(* C6 as stated: an issuer call rejected by its guard (no such channel,    *)
(* or the channel in the wrong state) leaves the whole model unchanged.    *)
(***************************************************************************)
C6_RejectionChangesNothing ==
    \A id \in CallIds, call \in IssuerCalls, ok \in BOOLEAN :
        issue(Conn, id, call, ok).res \in GuardErrors
            => issue(Conn, id, call, ok).conn = Conn

\* every Answer token of the connection, by channel and place in awaiting
Tokens == UNION {{<<id, i>> : i \in DOMAIN Awaiting(id)} : id \in DOMAIN channels}
TokenId(t) == Awaiting(t[1])[t[2]].request_id
RequestCalls == {call \in IssuerCalls : call.op \in RequestIssuers}

(***************************************************************************)
(* C8: request ids are handed out from 1 upwards, each successful          *)
(* id-returning issuer call returning an id greater than every id          *)
(* returned before, and no two Answer tokens in any awaiting queue carry   *)
(* the same id.                                                            *)
(***************************************************************************)
C8_RequestIds ==
    /\ returned # {} => 1 \in returned
    /\ \A x \in returned : 1 <= x /\ x < request_index
    /\ \A id \in CallIds, call \in RequestCalls :
           LET r == issue(Conn, id, call, TRUE) IN
           r.res = "Ok" => /\ \A x \in returned : x < r.val
                           /\ r.val >= 1
                           /\ r.val < r.conn.request_index
    /\ \A t, u \in Tokens : t # u => TokenId(t) # TokenId(u)
    /\ \A t \in Tokens : TokenId(t) < request_index

\* two requests are pending and two ids have been returned
C8_Witness ==
    /\ Cardinality(returned) >= 2
    /\ Cardinality(Tokens) >= 2
    /\ \E id \in DOMAIN channels :
           channel_open(Conn, id, TRUE).val = request_index

(***************************************************************************)
(* C10: on a channel without confirms basic_publish returns 0, leaves      *)
(* unacked, acked, nacked, message_count and awaiting as they were, and    *)
(* still uses up one request id, so that the next issuer call returns the  *)
(* id after the one the publish consumed.                                  *)
(***************************************************************************)
C10_PublishWithoutConfirm ==
    \A id \in DOMAIN channels :
        (StateTag(id) = "Connected" /\ ~channels[id].confirm) =>
            LET r == basic_publish(Conn, id, TRUE) IN
            /\ r.res = "Ok" /\ r.val = 0
            /\ r.conn.channels = channels
            /\ r.conn.request_index = request_index + 1
            /\ queue_declare(Conn, id, "q1", TRUE).val = request_index
            /\ queue_declare(r.conn, id, "q1", TRUE).val = request_index + 1
            /\ \A i \in DOMAIN published[id] : published[id][i] = 0

\* a publish has gone out on a connected channel without confirms
C10_Witness ==
    \E id \in DOMAIN channels :
        /\ StateTag(id) = "Connected" /\ ~channels[id].confirm
        /\ published[id] # <<>>
        /\ basic_publish(Conn, id, TRUE).val = 0

(***************************************************************************)
(* C7 as stated: an issuer call whose guard passes and whose frame the     *)
(* sink refuses returns the sink's error and leaves everything as it was:  *)
(* no request id used, no Answer pushed, channel state, shadows and the    *)
(* subscribers' prefetched messages untouched.                             *)
(***************************************************************************)
C7_SinkFailureChangesNothing ==
    \A id \in CallIds, call \in IssuerCalls :
        issue(Conn, id, call, TRUE).res = "Ok"
            => /\ issue(Conn, id, call, FALSE).res = "SinkError"
               /\ issue(Conn, id, call, FALSE).conn = Conn

\* the delivery tags basic_publish has returned on channel id
PublishedTags(id) == {published[id][i] : i \in DOMAIN published[id]} \ {0}

\* message_count has counted every tracked publish: no later confirm.select_ok
\* has set it back
CountedFromOne(id) ==
    channels[id].message_count - 1
        = Cardinality({i \in DOMAIN published[id] : published[id][i] # 0})

(***************************************************************************)
(* C3 as stated, on a channel whose message_count was never set back: with *)
(* confirms on, unacked, acked and nacked are pairwise disjoint, their     *)
(* union is the set of delivery tags basic_publish has returned on the     *)
(* channel, and their sizes add up to message_count - 1.                   *)
(***************************************************************************)
C3_ConfirmSets ==
    \A id \in DOMAIN channels :
        (channels[id].confirm /\ CountedFromOne(id)) =>
            LET ch == channels[id] IN
            /\ ch.unacked \cap ch.acked = {}
            /\ ch.unacked \cap ch.nacked = {}
            /\ ch.acked \cap ch.nacked = {}
            /\ ch.unacked \cup ch.acked \cup ch.nacked = PublishedTags(id)
            /\ Cardinality(ch.unacked) + Cardinality(ch.acked) + Cardinality(ch.nacked)
                   = ch.message_count - 1

(***************************************************************************)
(* C9: with confirms on, basic_publish returns the current message_count   *)
(* as delivery tag, adds exactly that tag to unacked and raises            *)
(* message_count by one, so the publishes that follow a confirm.select_ok  *)
(* return 1, 2, 3, ...                                                     *)
(***************************************************************************)
C9_PublishWithConfirm ==
    \A id \in DOMAIN channels :
        /\ (StateTag(id) = "Connected" /\ channels[id].confirm) =>
               LET r == basic_publish(Conn, id, TRUE) IN
               /\ r.res = "Ok" /\ r.val = channels[id].message_count
               /\ r.conn.channels[id].unacked = channels[id].unacked \cup {r.val}
               /\ r.conn.channels[id].acked = channels[id].acked
               /\ r.conn.channels[id].nacked = channels[id].nacked
               /\ r.conn.channels[id].message_count = channels[id].message_count + 1
        /\ (StateTag(id) = "Connected" /\ HeadIs(id, "AwaitingConfirmSelectOk")) =>
               LET s == receive_confirm_select_ok(Conn, id) IN
               s.res = "Ok" /\ basic_publish(s.conn, id, TRUE).val = 1
        /\ \A i \in DOMAIN published[id] :
               published[id][i] # 0 =>
                   \/ published[id][i] = 1
                   \/ i > 1 /\ published[id][i] = published[id][i - 1] + 1

\* three confirmed publishes in a row
C9_Witness ==
    \E id \in DOMAIN channels :
        /\ channels[id].confirm
        /\ published[id] = <<1, 2, 3>>
        /\ channels[id].unacked = {1, 2, 3}
        /\ channels[id].message_count = 4

(***************************************************************************)
(* Replies in push order: the caller issues only calls that succeed, the   *)
(* channel is opened once, and the broker answers the oldest pending       *)
(* request, a basic.get_ok being followed by its content frames.           *)
(***************************************************************************)
MaxReqOrder == 3
OrderCalls == {call \in IssuerCalls : call.op \in RequestIssuers \cup {"basic_publish"}}
Replies == ReplyMethods \cup ConfirmMethods
IssueOk ==
    \E id \in DOMAIN channels, call \in OrderCalls :
        /\ call.op = "channel_open" => Awaiting(id) = <<>>
        /\ issue(Conn, id, call, TRUE).res = "Ok"
        /\ Issue(MaxReqOrder, call.op, id, issue(Conn, id, call, TRUE))
DeliverReply ==
    \E id \in DOMAIN channels, m \in Replies :
        /\ HeadIs(id, Expected(m.name))
        /\ Step("receive_method", id, receive_method(Conn, id, m, TRUE, ""))
NextInOrder == IssueOk \/ DeliverReply \/ ContentHeader \/ ContentBody
SpecInOrder == InitOne /\ [][NextInOrder]_vars

InContent(id) == StateTag(id) \in {"WillReceiveContent", "ReceivingContent"}
PendingIds == {TokenId(t) : t \in Tokens}
FinishedIds == Keys(finished_reqs) \cup Keys(finished_get_reqs)

(***************************************************************************)
(* C2 as stated: when only successful calls were issued and every reply so *)
(* far came in push order, the reply matching the oldest pending request   *)
(* is accepted.                                                            *)
(***************************************************************************)
C2_RepliesInOrderSucceed ==
    \A id \in DOMAIN channels, m \in Replies :
        (~InContent(id) /\ HeadIs(id, Expected(m.name)))
            => Dispatch(id, m).res = "Ok"

(***************************************************************************)
(* C2, amended: on a Connected channel (or an Initial one awaiting         *)
(* channel.open_ok) the reply matching the oldest pending request returns  *)
(* Ok, removes exactly that request from awaiting and records its id in    *)
(* finished_reqs or finished_get_reqs, the content frames after a          *)
(* basic.get_ok bring the channel back to Connected without touching       *)
(* awaiting, and every returned id is finished or still pending, so that   *)
(* replies in push order empty awaiting and finish every id; a reply that  *)
(* does not match the head moves a Connected channel to Error.  Once       *)
(* channel.close_ok has closed the channel the replies still owed are      *)
(* refused with NotConnected.                                              *)
(***************************************************************************)
C2_InOrder ==
    \A id \in DOMAIN channels :
        /\ returned \subseteq FinishedIds \cup PendingIds
        /\ \A m \in Replies :
               LET r == Dispatch(id, m)
                   h == Head(Awaiting(id))
               IN /\ (PassesPreCheck(id, m) /\ HeadIs(id, Expected(m.name))) =>
                         /\ r.res = "Ok"
                         /\ r.conn.channels[id].awaiting = Tail(Awaiting(id))
                         /\ h.request_id \in
                                IF h.kind = "AwaitingBasicGetAnswer"
                                THEN Keys(r.conn.finished_get_reqs)
                                ELSE Keys(r.conn.finished_reqs)
                         /\ AfterState(r, id).tag =
                                CASE m.name = "channel.close_ok" -> "Closed"
                                  [] m.name = "basic.get_ok" -> "WillReceiveContent"
                                  [] OTHER -> "Connected"
                  /\ (StateTag(id) = "Connected" /\ ~HeadIs(id, Expected(m.name))) =>
                         /\ r.res = IF m.name = "channel.open_ok" THEN "InvalidState"
                                    ELSE "UnexpectedAnswer"
                         /\ AfterState(r, id) = Error
                  /\ (StateTag(id) = "Closed" /\ m.name # "channel.open_ok") =>
                         r.res = "NotConnected" /\ r.conn = Conn
        /\ StateTag(id) = "WillReceiveContent" =>
               \A size \in 0..MaxBody :
                   LET r == handle_content_header_frame(Conn, id, size) IN
                   /\ r.res = "Ok"
                   /\ r.conn.channels[id].awaiting = Awaiting(id)
                   /\ AfterState(r, id).tag =
                          IF size = 0 THEN "Connected" ELSE "ReceivingContent"
        /\ StateTag(id) = "ReceivingContent" =>
               LET r == handle_body_frame(Conn, id, channels[id].state.size) IN
               /\ r.res = "Ok"
               /\ r.conn.channels[id].awaiting = Awaiting(id)
               /\ AfterState(r, id) = Connected

\* three requests were answered in push order, a basic.get among them
C2_Witness ==
    \E id \in DOMAIN channels :
        /\ StateTag(id) = "Connected"
        /\ Awaiting(id) = <<>>
        /\ returned = {1, 2, 3}
        /\ FinishedIds = {1, 2, 3}
        /\ finished_get_reqs # EmptyMap

\* the broker's confirm of a publish: basic.ack or basic.nack
Confirm(name, d, multiple) == [name |-> name, delivery_tag |-> d, multiple |-> multiple]
\* the handler of a confirm will accept it: the channel is Connected, has
\* confirms on, and the oldest pending request is a tracked publish
AcceptsConfirm(id) ==
    /\ StateTag(id) = "Connected"
    /\ channels[id].confirm
    /\ HeadIs(id, "AwaitingPublishConfirm")
\* H of a confirm with delivery tag d
UpTo(id, d) == {t \in channels[id].unacked : t <= d}

(***************************************************************************)
(* C11 as stated: on a Connected channel with confirms on, an inbound      *)
(* basic.ack(d, multiple = true) moves exactly H = {t in unacked: t <= d}  *)
(* from unacked into acked and leaves nacked as it was, whatever the       *)
(* channel is awaiting; after three publishes ack(2, multiple) gives       *)
(* acked {1,2}, unacked {3}, nacked {}.                                    *)
(***************************************************************************)
C11_AckMultiple ==
    \A id \in DOMAIN channels, d \in DeliveryTags :
        (StateTag(id) = "Connected" /\ channels[id].confirm) =>
            LET r == Dispatch(id, Confirm("basic.ack", d, TRUE))
                ch == channels[id]
                after == r.conn.channels[id]
            IN /\ r.res = "Ok"
               /\ after.unacked = ch.unacked \ UpTo(id, d)
               /\ after.acked = ch.acked \cup UpTo(id, d)
               /\ after.nacked = ch.nacked
               /\ (published[id] = <<1, 2, 3>> /\ ch.unacked = {1, 2, 3} /\ d = 2)
                      => after.acked = {1, 2} /\ after.unacked = {3} /\ after.nacked = {}

(***************************************************************************)
(* C12 as stated: on a confirm channel whose oldest pending request is a   *)
(* publish, an inbound basic.nack(d, multiple) moves exactly H from        *)
(* unacked into nacked and leaves acked as it was.                         *)
(***************************************************************************)
C12_NackMultiple ==
    \A id \in DOMAIN channels, d \in DeliveryTags :
        AcceptsConfirm(id) =>
            LET r == Dispatch(id, Confirm("basic.nack", d, TRUE))
                ch == channels[id]
                after == r.conn.channels[id]
            IN /\ r.res = "Ok"
               /\ after.unacked = ch.unacked \ UpTo(id, d)
               /\ after.nacked = ch.nacked \cup UpTo(id, d)
               /\ after.acked = ch.acked

(***************************************************************************)
(* C13 as stated: on a Connected confirm channel an inbound basic.ack or   *)
(* basic.nack with multiple = false whose delivery tag is not in unacked   *)
(* is dropped: the handler returns Ok, the channel stays Connected and     *)
(* unacked, acked and nacked are unchanged.                                *)
(***************************************************************************)
C13_UnknownTagDropped ==
    \A id \in DOMAIN channels, d \in DeliveryTags, name \in {"basic.ack", "basic.nack"} :
        (StateTag(id) = "Connected" /\ channels[id].confirm /\ d \notin channels[id].unacked) =>
            LET r == Dispatch(id, Confirm(name, d, FALSE))
                ch == channels[id]
                after == r.conn.channels[id]
            IN /\ r.res = "Ok"
               /\ after.state = Connected
               /\ after.unacked = ch.unacked
               /\ after.acked = ch.acked
               /\ after.nacked = ch.nacked

\* the request id of the oldest pending request of channel id
HeadId(id) == Head(Awaiting(id)).request_id

(***************************************************************************)
(* C14: on an Initial channel channel_open succeeds and leaves the state   *)
(* Initial, and so does every other call but an inbound channel.open_ok;   *)
(* channel.open_ok with AwaitingChannelOpenOk at the head sets the state   *)
(* to Connected and records finished_reqs[request_id] = true for the id    *)
(* channel_open returned.                                                  *)
(***************************************************************************)
C14_OpenHandshake ==
    \A id \in DOMAIN channels :
        StateTag(id) = "Initial" =>
            LET r == channel_open(Conn, id, TRUE) IN
            /\ r.res = "Ok"
            /\ AfterState(r, id) = Initial
            /\ r.conn.channels[id].awaiting =
                   Append(Awaiting(id), Answer("AwaitingChannelOpenOk", r.val))
            /\ AfterState(channel_open(Conn, id, FALSE), id) = Initial
            /\ \A call \in IssuerCalls : AfterState(issue(Conn, id, call, TRUE), id) = Initial
            /\ \A m \in InboundMethods :
                   m.name # "channel.open_ok" => AfterState(Dispatch(id, m), id) = Initial
            /\ HeadIs(id, "AwaitingChannelOpenOk") =>
                   LET s == Dispatch(id, Method("channel.open_ok")) IN
                   /\ s.res = "Ok"
                   /\ AfterState(s, id) = Connected
                   /\ s.conn.channels[id].awaiting = Tail(Awaiting(id))
                   /\ HeadId(id) \in returned
                   /\ <<HeadId(id), TRUE>> \in s.conn.finished_reqs
            /\ Awaiting(id) = <<>> =>
                   LET s == receive_channel_open_ok(r.conn, id) IN
                   /\ s.res = "Ok"
                   /\ AfterState(s, id) = Connected
                   /\ <<r.val, TRUE>> \in s.conn.finished_reqs

\* channel.open is out, the channel is still Initial, and channel.open_ok
\* connects it
C14_Witness ==
    \E id \in DOMAIN channels :
        /\ StateTag(id) = "Initial"
        /\ HeadIs(id, "AwaitingChannelOpenOk")
        /\ HeadId(id) \in returned
        /\ ~Has(finished_reqs, HeadId(id))
        /\ AfterState(Dispatch(id, Method("channel.open_ok")), id) = Connected
        /\ <<HeadId(id), TRUE>> \in Dispatch(id, Method("channel.open_ok")).conn.finished_reqs

(***************************************************************************)
(* C15: on a Connected channel channel_close succeeds and leaves the state *)
(* Connected; channel.close_ok with AwaitingChannelCloseOk at the head     *)
(* sets the state to Closed and records finished_reqs[request_id] = true   *)
(* for the id channel_close returned.                                      *)
(***************************************************************************)
C15_CloseHandshake ==
    \A id \in DOMAIN channels :
        StateTag(id) = "Connected" =>
            LET r == channel_close(Conn, id, TRUE) IN
            /\ r.res = "Ok"
            /\ AfterState(r, id) = Connected
            /\ r.conn.channels[id].awaiting =
                   Append(Awaiting(id), Answer("AwaitingChannelCloseOk", r.val))
            /\ HeadIs(id, "AwaitingChannelCloseOk") =>
                   LET s == Dispatch(id, Method("channel.close_ok")) IN
                   /\ s.res = "Ok"
                   /\ AfterState(s, id) = Closed
                   /\ s.conn.channels[id].awaiting = Tail(Awaiting(id))
                   /\ HeadId(id) \in returned
                   /\ <<HeadId(id), TRUE>> \in s.conn.finished_reqs
            /\ Awaiting(id) = <<>> =>
                   LET s == receive_channel_close_ok(r.conn, id) IN
                   /\ s.res = "Ok"
                   /\ AfterState(s, id) = Closed
                   /\ <<r.val, TRUE>> \in s.conn.finished_reqs

\* channel.close is out, the channel is still Connected, and channel.close_ok
\* closes it
C15_Witness ==
    \E id \in DOMAIN channels :
        /\ StateTag(id) = "Connected"
        /\ HeadIs(id, "AwaitingChannelCloseOk")
        /\ ~Has(finished_reqs, HeadId(id))
        /\ AfterState(Dispatch(id, Method("channel.close_ok")), id) = Closed
        /\ <<HeadId(id), TRUE>> \in Dispatch(id, Method("channel.close_ok")).conn.finished_reqs

(***************************************************************************)
(* C16 as stated: on a Connected channel an inbound channel.close drops    *)
(* the head of awaiting (if any), sets the state to Closed, hands exactly  *)
(* one channel.close_ok frame of that channel to the sink, and returns Ok  *)
(* when the sink accepts it.                                               *)
(***************************************************************************)
C16_InboundClose ==
    \A id \in DOMAIN channels :
        StateTag(id) = "Connected" =>
            LET r == receive_method(Conn, id, Method("channel.close"), TRUE, "") IN
            /\ r.conn.channels[id].awaiting =
                   IF Awaiting(id) = <<>> THEN <<>> ELSE Tail(Awaiting(id))
            /\ AfterState(r, id) = Closed
            /\ r.conn.frames = <<<<id, Method("channel.close_ok")>>>>
            /\ r.res = "Ok"

\* the queue.declare_ok replies the broker may send
DeclareOkReplies ==
    [name : {"queue.declare_ok"}, queue : QueueNames \cup {"amq.gen-abc"},
     message_count : {0, 1}, consumer_count : {0, 2}]
\* the outcome the reply m must have for the declare request req
Declared(s, id, req, m) ==
    /\ s.res = "Ok"
    /\ <<req, TRUE>> \in s.conn.finished_reqs
    /\ <<req, m.queue>> \in s.conn.generated_names
    /\ Has(s.conn.channels[id].queues, m.queue)
    /\ Get(s.conn.channels[id].queues, m.queue)
           = NewQueue(m.queue, m.message_count, m.consumer_count)
    /\ Keys(s.conn.channels[id].queues) = Keys(channels[id].queues) \cup {m.queue}

(***************************************************************************)
(* C17: queue_declare, with the empty name too, followed by                *)
(* queue.declare_ok(queue = X) with AwaitingQueueDeclareOk at the head     *)
(* gives finished_reqs[req] = true, generated_names[req] = X and a queue   *)
(* shadow keyed by X that carries the reply's message_count and            *)
(* consumer_count, req being the id queue_declare returned.                *)
(***************************************************************************)
C17_DeclareRoundTrip ==
    \A id \in DOMAIN channels, m \in DeclareOkReplies :
        StateTag(id) = "Connected" =>
            /\ HeadIs(id, "AwaitingQueueDeclareOk") =>
                   /\ HeadId(id) \in returned
                   /\ Declared(Dispatch(id, m), id, HeadId(id), m)
            /\ Awaiting(id) = <<>> =>
                   \A n \in DeclareNames :
                       LET r == queue_declare(Conn, id, n, TRUE) IN
                       /\ r.res = "Ok"
                       /\ r.conn.channels[id].awaiting
                              = <<Answer("AwaitingQueueDeclareOk", r.val)>>
                       /\ r.conn.channels[id].queues = channels[id].queues
                       /\ Declared(receive_method(r.conn, id, m, TRUE, ""), id, r.val, m)

\* a queue.declare is the oldest pending request and the broker's name for
\* the queue is recorded under its id
C17_Witness ==
    \E id \in DOMAIN channels :
        /\ StateTag(id) = "Connected"
        /\ HeadIs(id, "AwaitingQueueDeclareOk")
        /\ ~Has(generated_names, HeadId(id))
        /\ LET m == [name |-> "queue.declare_ok", queue |-> "amq.gen-abc",
                     message_count |-> 1, consumer_count |-> 2]
           IN /\ <<HeadId(id), "amq.gen-abc">> \in Dispatch(id, m).conn.generated_names
              /\ Has(Dispatch(id, m).conn.channels[id].queues, "amq.gen-abc")

(***************************************************************************)
(* One channel, its queues and their bindings: open, queue.declare,        *)
(* queue.bind, queue.unbind, queue.delete and their replies.               *)
(***************************************************************************)
MaxReqBind == 4
InitBind == InitWith({1})
NextBind ==
    \/ ChannelOpen(MaxReqBind) \/ ReceiveChannelOpenOk
    \/ QueueDeclare(MaxReqBind) \/ ReceiveQueueDeclareOk
    \/ QueueBind(MaxReqBind) \/ ReceiveQueueBindOk
    \/ QueueUnbind(MaxReqBind) \/ ReceiveQueueUnbindOk
    \/ QueueDelete(MaxReqBind) \/ ReceiveQueueDeleteOk
SpecBind == InitBind /\ [][NextBind]_vars

BindKeys == Exchanges \X RoutingKeys
\* the binding `key` recorded on queue q of channel id in connection c
HasBinding(c, id, q, key) ==
    Has(c.channels[id].queues, q) /\ Has(Get(c.channels[id].queues, q).bindings, key)
BindingOf(c, id, q, key) == Get(Get(c.channels[id].queues, q).bindings, key)
IsActive(c, id, q, key) == HasBinding(c, id, q, key) /\ BindingOf(c, id, q, key).active
\* queue.bind of `key` on queue q, the sink accepting
Bind(c, id, q, key) == queue_bind(c, id, q, key[1], key[2], FALSE, TRUE)
\* no binding that is there before and after the call changes its active flag
KeepsActive(r, id) ==
    \A q \in QueueNames, key \in BindKeys :
        (HasBinding(Conn, id, q, key) /\ HasBinding(r.conn, id, q, key))
            => BindingOf(r.conn, id, q, key).active = BindingOf(Conn, id, q, key).active

(***************************************************************************)
(* C18 as stated: a binding recorded on queue Q is inactive from the       *)
(* queue_bind that created it until the queue.bind_ok answering that very  *)
(* call; the bind_ok answering a queue_bind of the same (exchange,         *)
(* routing_key) on another queue leaves Q's pending binding inactive.      *)
(***************************************************************************)
C18_OnlyItsOwnBindOk ==
    \A id \in DOMAIN channels, q1 \in QueueNames, q2 \in QueueNames, key \in BindKeys :
        (/\ StateTag(id) = "Connected" /\ Awaiting(id) = <<>>
         /\ q1 # q2 /\ Has(channels[id].queues, q1) /\ Has(channels[id].queues, q2)) =>
            LET first == Bind(Conn, id, q1, key)
                second == Bind(first.conn, id, q2, key)
                answered == receive_queue_bind_ok(second.conn, id)
            IN /\ ~IsActive(second.conn, id, q1, key)
               /\ ~IsActive(second.conn, id, q2, key)
               /\ IsActive(answered.conn, id, q1, key)
               /\ HasBinding(answered.conn, id, q2, key)
               /\ ~IsActive(answered.conn, id, q2, key)

(***************************************************************************)
(* C18, amended: a binding recorded on queue Q is active iff a             *)
(* queue.bind_ok answering a queue_bind of the same (exchange,             *)
(* routing_key) on that channel, on whichever queue, has been received     *)
(* since the binding was created.  Step by step: queue_bind records the    *)
(* binding inactive on the queue it names and touches no other binding;    *)
(* queue.bind_ok with AwaitingQueueBindOk at the head activates the        *)
(* bindings of the Answer's (exchange, routing_key) on every queue of the  *)
(* channel and touches no other; no other call changes the active flag     *)
(* of a binding.                                                           *)
(***************************************************************************)
C18_ActiveAfterMatchingBindOk ==
    \A id \in DOMAIN channels :
        /\ \A call \in IssuerCalls, ok \in BOOLEAN :
               (call.op # "queue_bind" \/ StateTag(id) # "Connected")
                   => KeepsActive(issue(Conn, id, call, ok), id)
        /\ \A m \in InboundMethods :
               (m.name # "queue.bind_ok" \/ ~HeadIs(id, "AwaitingQueueBindOk")
                \/ StateTag(id) # "Connected")
                   => KeepsActive(Dispatch(id, m), id)
        /\ StateTag(id) = "Connected" =>
               \A q \in QueueNames, key \in BindKeys :
                   LET r == Bind(Conn, id, q, key) IN
                   /\ r.res = "Ok"
                   /\ Has(channels[id].queues, q) =>
                          /\ HasBinding(r.conn, id, q, key)
                          /\ BindingOf(r.conn, id, q, key) = NewBinding(key[1], key[2], FALSE)
                          /\ ~IsActive(r.conn, id, q, key)
                   /\ ~Has(channels[id].queues, q) =>
                          r.conn.channels[id].queues = channels[id].queues
                   /\ \A q2 \in QueueNames, k2 \in BindKeys :
                          (q2 # q \/ k2 # key) =>
                              /\ HasBinding(r.conn, id, q2, k2) <=> HasBinding(Conn, id, q2, k2)
                              /\ IsActive(r.conn, id, q2, k2) <=> IsActive(Conn, id, q2, k2)
        /\ (StateTag(id) = "Connected" /\ HeadIs(id, "AwaitingQueueBindOk")) =>
               LET h == Head(Awaiting(id))
                   s == Dispatch(id, Method("queue.bind_ok"))
               IN /\ s.res = "Ok"
                  /\ \A q \in QueueNames, key \in BindKeys :
                         /\ HasBinding(s.conn, id, q, key) <=> HasBinding(Conn, id, q, key)
                         /\ IsActive(s.conn, id, q, key) <=>
                                /\ HasBinding(Conn, id, q, key)
                                /\ \/ IsActive(Conn, id, q, key)
                                   \/ key = <<h.exchange, h.routing_key>>

\* queue q1 has a pending binding, and the bind_ok that answers its
\* queue_bind also activates the binding of the same key bound on q2 after it
C18_Witness ==
    \E id \in DOMAIN channels, key \in BindKeys :
        /\ StateTag(id) = "Connected"
        /\ HeadIs(id, "AwaitingQueueBindOk")
        /\ HasBinding(Conn, id, "q1", key) /\ ~IsActive(Conn, id, "q1", key)
        /\ Has(channels[id].queues, "q2") /\ ~HasBinding(Conn, id, "q2", key)
        /\ LET second == Bind(Conn, id, "q2", key)
               answered == receive_queue_bind_ok(second.conn, id)
           IN /\ ~IsActive(second.conn, id, "q2", key)
              /\ IsActive(answered.conn, id, "q1", key)
              /\ IsActive(answered.conn, id, "q2", key)

(***************************************************************************)
(* C19 as stated: basic_consume on a queue, basic.consume_ok, basic_cancel *)
(* of that tag and basic.cancel_ok, in this order on a Connected channel   *)
(* with nothing else pending, leave no queue of the channel with that      *)
(* consumer tag among its consumers, and the subscriber's cancel() has     *)
(* been invoked exactly once.                                              *)
(***************************************************************************)
C19_CancelDropsConsumer ==
    \A id \in DOMAIN channels, q \in QueueNames, t \in ConsumerTags, sub \in SubscriberIds :
        (StateTag(id) = "Connected" /\ Awaiting(id) = <<>>) =>
            LET consume == basic_consume(Conn, id, q, t, <<FALSE, FALSE, FALSE, FALSE>>, sub, TRUE)
                consume_ok == receive_basic_consume_ok(consume.conn, id, t)
                cancel == basic_cancel(consume_ok.conn, id, t, TRUE)
                cancel_ok == receive_basic_cancel_ok(cancel.conn, id, t)
            IN /\ cancel_ok.res = "Ok"
               /\ \A x \in Values(cancel_ok.conn.channels[id].queues) : ~Has(x.consumers, t)
               /\ cancel_ok.conn.subscribers[sub].cancels = subscribers[sub].cancels + 1

(***************************************************************************)
(* Two channels that open, declare queues, get messages, close and fail:   *)
(* the calls that end a channel, and the replies that come after.          *)
(***************************************************************************)
MaxReqLife == 3
NextLife ==
    \/ ChannelOpen(MaxReqLife) \/ ReceiveChannelOpenOk
    \/ ChannelClose(MaxReqLife) \/ ReceiveChannelCloseOk \/ ReceiveChannelClose
    \/ QueueDeclare(MaxReqLife) \/ ReceiveQueueDeclareOk \/ ReceiveQueueBindOk
    \/ BasicGet(MaxReqLife) \/ ReceiveBasicGetOk \/ ReceiveBasicGetEmpty
    \/ ContentHeader \/ ContentBody
SpecLife == Init /\ [][NextLife]_vars

\* every id in the completion maps of connection c
Completed(c) ==
    Keys(c.finished_reqs) \cup Keys(c.finished_get_reqs) \cup Keys(c.generated_names)
TerminalIn(c, id) == c.channels[id].state.tag \in {"Closed", "Error"}
IdsOf(awaiting) == {awaiting[i].request_id : i \in DOMAIN awaiting}
\* the ids still awaited on a channel of c that is neither Closed nor Error
LiveIds(c) ==
    UNION {IdsOf(c.channels[id].awaiting) : id \in {i \in DOMAIN c.channels : ~TerminalIn(c, i)}}
\* the request ids that were handed out, are in no completion map, and that
\* no channel that still works awaits
LostIds(c) == (1..(c.request_index - 1)) \ (Completed(c) \cup LiveIds(c))
Lost(c, x) == x \in LostIds(c)
\* after the call with result r: the ids of `lost` stay lost, and the ids
\* outstanding on a channel the call closed or failed are lost, but for the
\* id a channel.close_ok itself completes
LostAfter(lost, r) ==
    LET after == LostIds(r.conn) IN
    /\ lost \subseteq after
    /\ \A id \in DOMAIN channels :
           (~Terminal(id) /\ TerminalIn(r.conn, id)) =>
               \A x \in IdsOf(Awaiting(id)) :
                   \/ x \in after
                   \/ /\ r.res = "Ok" /\ AfterState(r, id) = Closed
                      /\ HeadIs(id, "AwaitingChannelCloseOk") /\ x = HeadId(id)
                      /\ <<x, TRUE>> \in r.conn.finished_reqs

(***************************************************************************)
(* C20: once a channel is Error or Closed, no request id that was          *)
(* outstanding on it, still in its awaiting or popped by the step that     *)
(* failed or closed it, is ever added to finished_reqs, finished_get_reqs  *)
(* or generated_names: those ids are lost when the channel becomes         *)
(* terminal, and no issuer call, dispatcher call or content frame, on any  *)
(* channel, completes a lost id or makes a channel await it again.         *)
(***************************************************************************)
C20_LostForever ==
    LET lost == LostIds(Conn) IN
    /\ \A id \in DOMAIN channels : Terminal(id) => IdsOf(Awaiting(id)) \subseteq lost
    /\ \A cid \in DOMAIN channels :
           /\ \A call \in IssuerCalls, ok \in BOOLEAN :
                  LostAfter(lost, issue(Conn, cid, call, ok))
           /\ \A m \in InboundMethods, ok \in BOOLEAN :
                  LostAfter(lost, receive_method(Conn, cid, m, ok, ""))
           /\ StateTag(cid) = "WillReceiveContent" =>
                  \A size \in 0..MaxBody :
                      LostAfter(lost, handle_content_header_frame(Conn, cid, size))
           /\ StateTag(cid) = "ReceivingContent" =>
                  \A k \in 1..channels[cid].state.size :
                      LostAfter(lost, handle_body_frame(Conn, cid, k))

\* a failed channel still holds a queue.declare whose reply, come late, is
\* refused and completes nothing
C20_Witness ==
    \E id \in DOMAIN channels :
        /\ Terminal(id)
        /\ HeadIs(id, "AwaitingQueueDeclareOk")
        /\ Lost(Conn, HeadId(id))
        /\ \E m \in DeclareOks :
               /\ Dispatch(id, m).res = "NotConnected"
               /\ Lost(Dispatch(id, m).conn, HeadId(id))

(***************************************************************************)
(* C21: every issuer other than channel_open returns InvalidChannel when   *)
(* the channel named does not exist and NotConnected when it exists and is *)
(* Initial, Closed or Error; channel_open returns InvalidChannel for a     *)
(* missing channel and fails for every existing channel not in Initial.    *)
(***************************************************************************)
C21_IssuerGuards ==
    \A id \in CallIds, call \in IssuerCalls, ok \in BOOLEAN :
        LET r == issue(Conn, id, call, ok) IN
        /\ id \notin DOMAIN channels => r.res = "InvalidChannel"
        /\ (id \in DOMAIN channels /\ call.op # "channel_open"
              /\ StateTag(id) \in {"Initial", "Closed", "Error"})
               => r.res = "NotConnected"
        /\ (id \in DOMAIN channels /\ call.op = "channel_open"
              /\ StateTag(id) # "Initial")
               => r.res \notin {"Ok", "InvalidChannel"}

\* one channel still Initial, the other Closed or Error, and a call naming
\* a channel that does not exist
C21_Witness ==
    \E id, other \in DOMAIN channels :
        /\ StateTag(id) = "Initial" /\ StateTag(other) \in {"Closed", "Error"}
        /\ basic_get(Conn, id, "q1", TRUE).res = "NotConnected"
        /\ queue_purge(Conn, other, "q1", TRUE).res = "NotConnected"
        /\ channel_open(Conn, other, TRUE).res = "InvalidState"
        /\ \E missing \in CallIds \ DOMAIN channels :
               queue_purge(Conn, missing, "q1", TRUE).res = "InvalidChannel"

\* connection c with channel id in Error, its awaiting as it was or without
\* the head the handler popped
FailedOnly(c, id) ==
    LET e == set_channel_state(c, id, Error) IN
    {e} \cup (IF c.channels[id].awaiting # <<>>
              THEN {[e EXCEPT !.channels[id].awaiting = Tail(@)]} ELSE {})

(***************************************************************************)
(* C22 as stated, for a channel that passes the handler's state check:     *)
(* every inbound method either returns Ok, or returns UnexpectedAnswer     *)
(* with the channel set to Error and nothing else changed (the popped head *)
(* of awaiting aside); in particular channel.flow whose flow_ok the sink   *)
(* refuses and channel.close return no error with send_flow, awaiting or   *)
(* the state already modified.                                             *)
(***************************************************************************)
C22_AllOrError ==
    \A id \in DOMAIN channels, m \in InboundMethods, ok \in BOOLEAN :
        PassesPreCheck(id, m) =>
            LET r == receive_method(Conn, id, m, ok, "") IN
            r.res # "Ok" =>
                /\ r.res = "UnexpectedAnswer"
                /\ r.conn \in FailedOnly(Conn, id)

\* connection c after a reply handler refused the head of channel id's
\* awaiting: the head popped, the channel in Error, nothing else touched
Refused(c, id) ==
    [c EXCEPT !.channels[id].state = Error,
              !.channels[id].awaiting = IF @ = <<>> THEN @ ELSE Tail(@)]

(***************************************************************************)
(* C23: a reply handler that returns UnexpectedAnswer because the head of  *)
(* awaiting is not its own has no partial effect: finished_reqs,           *)
(* finished_get_reqs, generated_names, queues, bindings, consumers, flow   *)
(* flags, QoS values and confirm sets are as before the call; only the     *)
(* channel state (now Error) differs, apart from the popped head.          *)
(***************************************************************************)
C23_NoPartialEffects ==
    \A id \in DOMAIN channels, m \in ReplyMethods \cup ConfirmMethods :
        LET r == Dispatch(id, m) IN
        /\ r.res = "UnexpectedAnswer" =>
               /\ ~HeadIs(id, Expected(m.name))
               /\ r.conn = Refused(Conn, id)
        /\ (PassesPreCheck(id, m) /\ ~HeadIs(id, Expected(m.name)))
               => r.res = "UnexpectedAnswer"

\* a channel with a bound queue owes a queue.unbind_ok and receives
\* basic.get_ok and basic.qos_ok instead
C23_Witness ==
    \E id \in DOMAIN channels, q \in QueueNames, m \in GetOks :
        /\ StateTag(id) = "Connected"
        /\ HeadIs(id, "AwaitingQueueUnbindOk")
        /\ Has(channels[id].queues, q)
        /\ Get(channels[id].queues, q).bindings # EmptyMap
        /\ Dispatch(id, m).res = "UnexpectedAnswer"
        /\ Dispatch(id, m).conn.channels[id].queues = channels[id].queues
        /\ Dispatch(id, Method("basic.qos_ok")).res = "UnexpectedAnswer"
        /\ Dispatch(id, Method("basic.qos_ok")).conn.prefetch_count = prefetch_count

(***************************************************************************)
(* One channel that declares queues, consumes from them, and receives      *)
(* deliveries and their content.                                           *)
(***************************************************************************)
MaxReqConsume == 4
InitConsume == InitWith({1})
NextConsume ==
    \/ ChannelOpen(MaxReqConsume) \/ ReceiveChannelOpenOk
    \/ QueueDeclare(MaxReqConsume) \/ ReceiveQueueDeclareOk
    \/ BasicConsume(MaxReqConsume) \/ ReceiveBasicConsumeOk
    \/ ReceiveBasicDeliver \/ ContentHeader \/ ContentBody
SpecConsume == InitConsume /\ [][NextConsume]_vars

\* the queues of channel id on which consumer tag t is registered
Owners(id, t) ==
    {q \in Keys(channels[id].queues) : Has(Get(channels[id].queues, q).consumers, t)}

(***************************************************************************)
(* C24 as stated: on a Connected channel an inbound basic.deliver naming   *)
(* consumer tag T, registered on queue Q of the channel (and on no other), *)
(* sets the channel state to WillReceiveContent(Q, Some(T)), whatever      *)
(* other queue shadows the channel has, and sets that consumer's           *)
(* current_message to a new Delivery with the method's delivery_tag,       *)
(* exchange, routing_key and redelivered.                                  *)
(***************************************************************************)
C24_DeliverNamesOwner ==
    \A id \in DOMAIN channels, m \in Delivers, q \in QueueNames :
        (StateTag(id) = "Connected" /\ Owners(id, m.consumer_tag) = {q}) =>
            \A last_queue \in LastQueues(Conn, id) :
                LET r == receive_method(Conn, id, m, TRUE, last_queue)
                    after == Get(r.conn.channels[id].queues, q)
                IN /\ r.res = "Ok"
                   /\ AfterState(r, id) = WillReceiveContent(q, Some(m.consumer_tag))
                   /\ Get(after.consumers, m.consumer_tag).current_message
                          = Some(NewDelivery(m.delivery_tag, m.exchange,
                                             m.routing_key, m.redelivered))

(***************************************************************************)
(* Two channels under flow control and QoS: channel.flow in both           *)
(* directions and basic.qos, per channel and connection-wide.              *)
(***************************************************************************)
MaxReqFlow == 4
NextFlow ==
    \/ ChannelOpen(MaxReqFlow) \/ ReceiveChannelOpenOk
    \/ ChannelFlow(MaxReqFlow) \/ ReceiveChannelFlow \/ ReceiveChannelFlowOk
    \/ BasicQos(MaxReqFlow) \/ ReceiveBasicQosOk
SpecFlow == Init /\ [][NextFlow]_vars

FlowOk(active) == [name |-> "channel.flow_ok", active |-> active]

(***************************************************************************)
(* C25: on a Connected channel an inbound channel.flow(active), the sink   *)
(* accepting, sets send_flow to active and emits exactly one               *)
(* channel.flow_ok(active) frame, without popping awaiting, allocating a   *)
(* request id or changing the channel state; an inbound                    *)
(* channel.flow_ok(active) with AwaitingChannelFlowOk at the head sets     *)
(* receive_flow to active and completes that request.                      *)
(***************************************************************************)
C25_FlowBothWays ==
    \A id \in DOMAIN channels, active \in BOOLEAN :
        StateTag(id) = "Connected" =>
            /\ LET r == receive_method(Conn, id, [name |-> "channel.flow", active |-> active],
                                       TRUE, "")
               IN /\ r.res = "Ok"
                  /\ r.conn = [Conn EXCEPT !.channels[id].send_flow = active,
                                           !.frames = <<<<id, FlowOk(active)>>>>]
            /\ HeadIs(id, "AwaitingChannelFlowOk") =>
                   LET r == Dispatch(id, FlowOk(active)) IN
                   /\ r.res = "Ok"
                   /\ r.conn = [Conn EXCEPT
                                   !.channels[id].receive_flow = active,
                                   !.channels[id].awaiting = Tail(@),
                                   !.finished_reqs = Insert(@, HeadId(id), TRUE)]
                   /\ Has(r.conn.finished_reqs, HeadId(id))

\* the broker has stopped the client's flow and confirmed the client's own
\* request to stop, and the next channel.flow_ok is owed
C25_Witness ==
    \E id \in DOMAIN channels :
        /\ StateTag(id) = "Connected"
        /\ HeadIs(id, "AwaitingChannelFlowOk")
        /\ ~channels[id].send_flow
        /\ ~channels[id].receive_flow
        /\ ~Has(finished_reqs, HeadId(id))
        /\ Dispatch(id, FlowOk(TRUE)).conn.channels[id].receive_flow
        /\ receive_channel_flow(Conn, id, TRUE, TRUE).conn.channels[id].send_flow

(***************************************************************************)
(* C26: after queue_delete(Q) and the queue.delete_ok that finds its       *)
(* AwaitingQueueDeleteOk at the head, Q is not a key of the channel's      *)
(* queues (the name removed is the one stored in the Answer when the       *)
(* request was issued), every other queue shadow of the channel is         *)
(* unchanged, and the request is marked finished.                          *)
(***************************************************************************)
C26_DeleteDropsShadow ==
    \A id \in DOMAIN channels :
        StateTag(id) = "Connected" =>
            /\ HeadIs(id, "AwaitingQueueDeleteOk") =>
                   LET r == Dispatch(id, Method("queue.delete_ok"))
                       name == Head(Awaiting(id)).queue
                   IN /\ r.res = "Ok"
                      /\ ~Has(r.conn.channels[id].queues, name)
                      /\ r.conn.channels[id].queues
                             = {kv \in channels[id].queues : kv[1] # name}
                      /\ Get(r.conn.finished_reqs, HeadId(id)) = TRUE
                      /\ r.conn = [Conn EXCEPT
                                      !.channels[id].queues = r.conn.channels[id].queues,
                                      !.channels[id].awaiting = Tail(@),
                                      !.finished_reqs = r.conn.finished_reqs]
            /\ \A q \in QueueNames :
                   LET d == queue_delete(Conn, id, q, TRUE) IN
                   /\ d.res = "Ok"
                   /\ d.conn.channels[id].queues = channels[id].queues
                   /\ Awaiting(id) = <<>> =>
                          LET r == receive_queue_delete_ok(d.conn, id) IN
                          /\ r.res = "Ok"
                          /\ r.conn.channels[id].queues
                                 = {kv \in channels[id].queues : kv[1] # q}
                          /\ Get(r.conn.finished_reqs, d.val) = TRUE

\* a channel with two queue shadows owes the queue.delete_ok of one of them
C26_Witness ==
    \E id \in DOMAIN channels :
        /\ StateTag(id) = "Connected"
        /\ HeadIs(id, "AwaitingQueueDeleteOk")
        /\ Has(channels[id].queues, Head(Awaiting(id)).queue)
        /\ Cardinality(channels[id].queues) = 2
        /\ Cardinality(Dispatch(id, Method("queue.delete_ok")).conn.channels[id].queues) = 1

\* queue.unbind of `key` on queue q, the sink accepting
Unbind(c, id, q, key) == queue_unbind(c, id, q, key[1], key[2], TRUE)
\* the queues of channel id in connection c that hold binding `key`
BoundQueues(c, id, key) == {q \in QueueNames : HasBinding(c, id, q, key)}
\* the queues of channel id, each without binding `key`
WithoutBinding(c, id, key) ==
    {<<kv[1], [kv[2] EXCEPT !.bindings = {b \in @ : b[1] # key}]>> :
        kv \in c.channels[id].queues}

(***************************************************************************)
(* C27: queue.unbind_ok removes the binding (exchange, routing_key) stored *)
(* in its Answer from every queue of the channel, and unbinding is         *)
(* idempotent: after two consecutive queue_unbind calls for the same       *)
(* (exchange, routing_key) and both unbind_ok replies, both handlers have  *)
(* returned Ok and no queue of the channel holds that binding.             *)
(***************************************************************************)
C27_UnbindIdempotent ==
    \A id \in DOMAIN channels :
        StateTag(id) = "Connected" =>
            /\ HeadIs(id, "AwaitingQueueUnbindOk") =>
                   LET r == Dispatch(id, Method("queue.unbind_ok"))
                       key == <<Head(Awaiting(id)).exchange, Head(Awaiting(id)).routing_key>>
                   IN /\ r.res = "Ok"
                      /\ BoundQueues(r.conn, id, key) = {}
                      /\ r.conn.channels[id].queues = WithoutBinding(Conn, id, key)
                      /\ Get(r.conn.finished_reqs, HeadId(id)) = TRUE
            /\ Awaiting(id) = <<>> =>
                   \A q \in QueueNames, key \in BindKeys :
                       LET bound == IF Has(channels[id].queues, q)
                                    THEN receive_queue_bind_ok(Bind(Conn, id, q, key).conn, id).conn
                                    ELSE Conn
                           first == Unbind(bound, id, q, key)
                           second == Unbind(first.conn, id, q, key)
                           once == receive_queue_unbind_ok(second.conn, id)
                           twice == receive_queue_unbind_ok(once.conn, id)
                           alone == receive_queue_unbind_ok(first.conn, id)
                           again == receive_queue_unbind_ok(Unbind(alone.conn, id, q, key).conn, id)
                       IN /\ first.res = "Ok" /\ second.res = "Ok"
                          /\ once.res = "Ok" /\ twice.res = "Ok"
                          /\ BoundQueues(once.conn, id, key) = {}
                          /\ BoundQueues(twice.conn, id, key) = {}
                          /\ twice.conn.channels[id].queues = once.conn.channels[id].queues
                          /\ {first.val, second.val} \subseteq Keys(twice.conn.finished_reqs)
                          /\ alone.res = "Ok" /\ again.res = "Ok"
                          /\ again.conn.channels[id].queues = WithoutBinding(bound, id, key)

\* a channel with two queue shadows, one of them bound: binding the other,
\* then unbinding twice leaves neither bound
C27_Witness ==
    \E id \in DOMAIN channels, key \in BindKeys :
        /\ StateTag(id) = "Connected" /\ Awaiting(id) = <<>>
        /\ HasBinding(Conn, id, "q1", key)
        /\ Has(channels[id].queues, "q2")
        /\ LET bound == receive_queue_bind_ok(Bind(Conn, id, "q2", key).conn, id).conn
               first == Unbind(bound, id, "q2", key)
               second == Unbind(first.conn, id, "q2", key)
               once == receive_queue_unbind_ok(second.conn, id)
               twice == receive_queue_unbind_ok(once.conn, id)
           IN /\ BoundQueues(bound, id, key) = {"q1", "q2"}
              /\ BoundQueues(second.conn, id, key) = {"q1", "q2"}
              /\ BoundQueues(once.conn, id, key) = {}
              /\ twice.res = "Ok"
              /\ BoundQueues(twice.conn, id, key) = {}

\* the prefetch values of connection c: connection-wide, and per channel
WidePrefetch(c) == <<c.prefetch_size, c.prefetch_count>>
ChannelPrefetch(c, id) == <<c.channels[id].prefetch_size, c.channels[id].prefetch_count>>
\* the prefetch values of c are those of Conn, but for `wide` connection-wide
\* and `own` on channel id
PrefetchIs(c, id, wide, own) ==
    /\ WidePrefetch(c) = wide
    /\ ChannelPrefetch(c, id) = own
    /\ \A other \in DOMAIN channels \ {id} :
           ChannelPrefetch(c, other) = ChannelPrefetch(Conn, other)
\* prefetch sizes and counts a caller asks for
QosSizes == {0, 1, 3}
QosCounts == {0, 2, 5}

(***************************************************************************)
(* C28: basic_qos(prefetch_size, prefetch_count, global) changes no        *)
(* prefetch value when it is issued; on basic.qos_ok the values recorded   *)
(* in the Answer are applied to the connection-wide prefetch_size and      *)
(* prefetch_count when global is true, every channel's values unchanged,   *)
(* and to that channel's prefetch_size and prefetch_count when global is   *)
(* false, the connection-wide values and other channels unchanged.         *)
(***************************************************************************)
C28_QosAppliedOnReply ==
    \A id \in DOMAIN channels :
        StateTag(id) = "Connected" =>
            /\ HeadIs(id, "AwaitingBasicQosOk") =>
                   LET r == Dispatch(id, Method("basic.qos_ok"))
                       a == Head(Awaiting(id))
                       asked == <<a.prefetch_size, a.prefetch_count>>
                   IN /\ r.res = "Ok"
                      /\ a.global => PrefetchIs(r.conn, id, asked, ChannelPrefetch(Conn, id))
                      /\ ~a.global => PrefetchIs(r.conn, id, WidePrefetch(Conn), asked)
            /\ \A size \in QosSizes, count \in QosCounts, global \in BOOLEAN :
                   LET q == basic_qos(Conn, id, size, count, global, TRUE)
                       r == receive_basic_qos_ok(q.conn, id)
                   IN /\ q.res = "Ok"
                      /\ PrefetchIs(q.conn, id, WidePrefetch(Conn), ChannelPrefetch(Conn, id))
                      /\ Awaiting(id) = <<>> =>
                             /\ r.res = "Ok"
                             /\ global => PrefetchIs(r.conn, id, <<size, count>>,
                                                     ChannelPrefetch(Conn, id))
                             /\ ~global => PrefetchIs(r.conn, id, WidePrefetch(Conn),
                                                      <<size, count>>)

\* the connection-wide values were set by an earlier global basic.qos, and a
\* channel still at its defaults owes the basic.qos_ok of a per-channel one
C28_Witness ==
    \E id \in DOMAIN channels :
        /\ StateTag(id) = "Connected"
        /\ HeadIs(id, "AwaitingBasicQosOk") /\ ~Head(Awaiting(id)).global
        /\ WidePrefetch(Conn) = <<1, 2>>
        /\ ChannelPrefetch(Conn, id) = <<0, 0>>
        /\ ChannelPrefetch(Dispatch(id, Method("basic.qos_ok")).conn, id) = <<1, 2>>

(***************************************************************************)
(* C29 as stated: after basic_consume(queue = Q, ..., subscriber) and the  *)
(* basic.consume_ok(consumer_tag = T) that finds its                       *)
(* AwaitingBasicConsumeOk at the head, generated_names[req] = T,           *)
(* finished_reqs[req] = true, and a Consumer with tag T, the flags given   *)
(* at issue time and the supplied subscriber is in the shadow of queue Q.  *)
(***************************************************************************)
C29_ConsumeOkInsertsConsumer ==
    \A id \in DOMAIN channels, t \in ConsumerTags :
        (StateTag(id) = "Connected" /\ HeadIs(id, "AwaitingBasicConsumeOk")) =>
            LET a == Head(Awaiting(id))
                r == Dispatch(id, [name |-> "basic.consume_ok", consumer_tag |-> t])
                queues == r.conn.channels[id].queues
            IN /\ r.res = "Ok"
               /\ Get(r.conn.generated_names, a.request_id) = t
               /\ Get(r.conn.finished_reqs, a.request_id) = TRUE
               /\ Has(queues, a.queue)
               /\ Has(Get(queues, a.queue).consumers, t)
               /\ Get(Get(queues, a.queue).consumers, t)
                      = NewConsumer(t, a.no_local, a.no_ack, a.exclusive, a.nowait,
                                    a.subscriber)

(***************************************************************************)
(* C30 as stated: on a Connected channel with AwaitingBasicGetAnswer(req,  *)
(* Q) at the head, an inbound basic.get_ok sets the channel state to       *)
(* WillReceiveContent(Q, None), Q being the queue named in the basic_get   *)
(* call, sets Q's current_get_message to a new BasicGetMessage built from  *)
(* the method, and records finished_get_reqs[req] = true and nothing in    *)
(* finished_reqs.                                                          *)
(***************************************************************************)
C30_GetOkStoresMessage ==
    \A id \in DOMAIN channels, m \in GetOks :
        (StateTag(id) = "Connected" /\ HeadIs(id, "AwaitingBasicGetAnswer")) =>
            LET a == Head(Awaiting(id))
                r == Dispatch(id, m)
                queues == r.conn.channels[id].queues
            IN /\ r.res = "Ok"
               /\ AfterState(r, id) = WillReceiveContent(a.queue, None)
               /\ Get(r.conn.finished_get_reqs, a.request_id) = TRUE
               /\ r.conn.finished_reqs = finished_reqs
               /\ Has(queues, a.queue)
               /\ Get(queues, a.queue).current_get_message
                      = Some(NewBasicGetMessage(m.delivery_tag, m.exchange, m.routing_key,
                                                m.redelivered, m.message_count))

(***************************************************************************)
(* C31: on a Connected channel with AwaitingBasicGetAnswer(req, _) at the  *)
(* head, an inbound basic.get_empty records finished_get_reqs[req] =       *)
(* false, leaves the channel state Connected, and creates no               *)
(* current_get_message on any queue.                                       *)
(***************************************************************************)
C31_GetEmpty ==
    \A id \in DOMAIN channels :
        (StateTag(id) = "Connected" /\ HeadIs(id, "AwaitingBasicGetAnswer")) =>
            LET r == Dispatch(id, Method("basic.get_empty")) IN
            /\ r.res = "Ok"
            /\ Get(r.conn.finished_get_reqs, HeadId(id)) = FALSE
            /\ AfterState(r, id) = Connected
            /\ r.conn.channels[id].queues = channels[id].queues
            /\ r.conn = [Conn EXCEPT
                            !.channels[id].awaiting = Tail(@),
                            !.finished_get_reqs = Insert(@, HeadId(id), FALSE)]

\* a basic_get on a queue that has a shadow without a message is pending
C31_Witness ==
    \E id \in DOMAIN channels :
        /\ StateTag(id) = "Connected"
        /\ HeadIs(id, "AwaitingBasicGetAnswer")
        /\ Has(channels[id].queues, Head(Awaiting(id)).queue)
        /\ Get(channels[id].queues, Head(Awaiting(id)).queue).current_get_message = None
        /\ ~Has(finished_get_reqs, HeadId(id))
        /\ Has(Dispatch(id, Method("basic.get_empty")).conn.finished_get_reqs, HeadId(id))

(***************************************************************************)
(* Two channels that consume and acknowledge: deliveries buffered by the   *)
(* subscribers, and the calls that acknowledge, reject and recover them.   *)
(***************************************************************************)
MaxReqAck == 3
NextAck ==
    \/ ChannelOpen(MaxReqAck) \/ ReceiveChannelOpenOk
    \/ QueueDeclare(MaxReqAck) \/ ReceiveQueueDeclareOk
    \/ BasicConsume(MaxReqAck) \/ ReceiveBasicConsumeOk
    \/ ReceiveBasicDeliver \/ ContentHeader \/ ContentBody
    \/ BasicAck \/ BasicNack \/ BasicReject \/ BasicRecoverAsync
    \/ BasicRecover(MaxReqAck) \/ ReceiveBasicRecoverOk
SpecAck == Init /\ [][NextAck]_vars

PlainCalls == {call \in IssuerCalls : call.op \in PlainIssuers}
\* the method a fire-and-forget issuer puts on the wire
WireName(op) ==
    CASE op = "basic_ack" -> "basic.ack"
      [] op = "basic_reject" -> "basic.reject"
      [] op = "basic_nack" -> "basic.nack"
      [] op = "basic_recover_async" -> "basic.recover_async"
\* connection c as the next call finds it: the frames of the last call are gone
Sent(c) == [c EXCEPT !.frames = <<>>]

(***************************************************************************)
(* C32: basic_ack, basic_reject, basic_nack and basic_recover_async are    *)
(* fire-and-forget: a successful call emits one frame, pushes no Answer    *)
(* onto awaiting, allocates no request id and leaves the channel state     *)
(* unchanged, so that a later reply-expecting request is still answered by *)
(* the next reply.                                                         *)
(***************************************************************************)
C32_FireAndForget ==
    \A id \in DOMAIN channels, call \in PlainCalls :
        StateTag(id) = "Connected" =>
            LET r == issue(Conn, id, call, TRUE)
                later == queue_declare(Sent(r.conn), id, "q1", TRUE)
            IN /\ r.res = "Ok"
               /\ Len(r.conn.frames) = 1
               /\ r.conn.frames[1][1] = id
               /\ r.conn.frames[1][2].name = WireName(call.op)
               /\ r.conn.channels = channels
               /\ r.conn.request_index = request_index
               /\ r.conn.finished_reqs = finished_reqs
               /\ r.conn.finished_get_reqs = finished_get_reqs
               /\ r.conn.generated_names = generated_names
               /\ \A m \in ReplyMethods :
                      LET before == Dispatch(id, m)
                          after == receive_method(Sent(r.conn), id, m, TRUE, "")
                      IN /\ after.res = before.res
                         /\ after.conn.channels = before.conn.channels
                         /\ after.conn.finished_reqs = before.conn.finished_reqs
               /\ later.res = "Ok" /\ later.val = request_index
               /\ Awaiting(id) = <<>> =>
                      \A m \in DeclareOks :
                          receive_method(Sent(later.conn), id, m, TRUE, "").res = "Ok"

\* a request is pending on a Connected channel; an acknowledgement goes out
\* and the reply to the request is accepted after it
C32_Witness ==
    \E id \in DOMAIN channels, m \in ReplyMethods :
        /\ StateTag(id) = "Connected"
        /\ Awaiting(id) # <<>>
        /\ Expected(m.name) = Head(Awaiting(id)).kind
        /\ LET r == basic_ack(Conn, id, 1, FALSE, TRUE) IN
           /\ r.res = "Ok" /\ Len(r.conn.frames) = 1
           /\ r.conn.channels[id].awaiting = Awaiting(id)
           /\ receive_method(Sent(r.conn), id, m, TRUE, "").res = "Ok"
           /\ basic_nack(Conn, id, 1, FALSE, TRUE).conn.request_index = request_index

\* the calls that must drop the prefetched messages of their channel
DropCalls ==
    {call \in IssuerCalls :
        \/ call.op \in {"basic_recover", "basic_recover_async"}
        \/ call.op \in {"basic_ack", "basic_nack"} /\ call.multiple /\ call.delivery_tag = 0}
\* the acknowledging calls that must not
KeepCalls ==
    {call \in IssuerCalls :
        call.op \in {"basic_ack", "basic_nack", "basic_reject"}} \ DropCalls
\* the subscribers of the consumers on the queues of channel id in connection c
SubscribersOn(c, id) ==
    {cs.subscriber : cs \in UNION {Values(q.consumers) : q \in Values(c.channels[id].queues)}}
\* the buffers of c are those of `before`, the ones in `dropped` emptied
Buffers(c, before, dropped) ==
    \A s \in DOMAIN before.subscribers :
        c.subscribers[s] = IF s \in dropped
                           THEN [before.subscribers[s] EXCEPT !.messages = <<>>]
                           ELSE before.subscribers[s]
\* connection c after the user has made one more subscriber, s2, and channel
\* `other` has been opened, has consumed from q1 with it, and has received
\* one whole delivery for it
OtherConsumes(c, other) ==
    LET more == [c EXCEPT !.subscribers =
                    [s \in DOMAIN c.subscribers \cup {"s2"} |->
                        IF s \in DOMAIN c.subscribers THEN c.subscribers[s]
                        ELSE NewSubscriber]]
        opened == receive_channel_open_ok(channel_open(more, other, TRUE).conn, other).conn
        declared == receive_queue_declare_ok(
                        queue_declare(opened, other, "q1", TRUE).conn, other,
                        [name |-> "queue.declare_ok", queue |-> "q1",
                         message_count |-> 1, consumer_count |-> 0]).conn
        consuming == receive_basic_consume_ok(
                         basic_consume(declared, other, "q1", "t1",
                                       <<FALSE, FALSE, FALSE, FALSE>>, "s2", TRUE).conn,
                         other, "t1").conn
        delivered == receive_basic_deliver(consuming, other,
                         [name |-> "basic.deliver", consumer_tag |-> "t1", delivery_tag |-> 2,
                          exchange |-> "e1", routing_key |-> "k1", redelivered |-> FALSE],
                         "q1").conn
    IN Sent(handle_content_header_frame(delivered, other, 0).conn)

(***************************************************************************)
(* C33: all prefetched (buffered, not yet accepted) messages of every      *)
(* consumer on every queue of the channel are dropped when basic_ack or    *)
(* basic_nack is issued with multiple = true and delivery_tag = 0, and     *)
(* whenever basic_recover or basic_recover_async is issued; basic_ack and  *)
(* basic_nack with any other arguments and basic_reject leave prefetched   *)
(* messages unchanged, as do consumers on other channels.                  *)
(***************************************************************************)
C33_DropPrefetched ==
    \A id \in DOMAIN channels :
        StateTag(id) = "Connected" =>
            /\ \A call \in DropCalls, ok \in BOOLEAN :
                   Buffers(issue(Conn, id, call, ok).conn, Conn, SubscribersOn(Conn, id))
            /\ \A call \in KeepCalls, ok \in BOOLEAN :
                   Buffers(issue(Conn, id, call, ok).conn, Conn, {})
            /\ \A other \in DOMAIN channels \ {id} :
                   (StateTag(other) = "Initial" /\ Awaiting(other) = <<>>) =>
                       LET both == OtherConsumes(Conn, other) IN
                       /\ SubscribersOn(both, other) = {"s2"}
                       /\ both.subscribers["s2"].messages = <<2>>
                       /\ \A call \in DropCalls, ok \in BOOLEAN :
                              /\ Buffers(issue(both, id, call, ok).conn, both,
                                         SubscribersOn(Conn, id))
                              /\ Buffers(issue(both, other, call, ok).conn, both, {"s2"})
                       /\ \A call \in KeepCalls, ok \in BOOLEAN :
                              Buffers(issue(both, id, call, ok).conn, both, {})

\* subscriber s1 buffers a delivery for its consumer on a Connected channel,
\* the other channel gets a consumer with a buffered delivery of its own,
\* and basic_ack(0, multiple) on the first empties s1's buffer alone
C33_Witness ==
    \E id, other \in DOMAIN channels :
        /\ id # other
        /\ StateTag(id) = "Connected"
        /\ StateTag(other) = "Initial" /\ Awaiting(other) = <<>>
        /\ SubscribersOn(Conn, id) = {"s1"}
        /\ subscribers["s1"].messages # <<>>
        /\ LET both == OtherConsumes(Conn, other)
               r == basic_ack(both, id, 0, TRUE, TRUE)
           IN /\ both.subscribers["s2"].messages = <<2>>
              /\ r.conn.subscribers["s1"].messages = <<>>
              /\ r.conn.subscribers["s2"].messages = <<2>>
              /\ basic_ack(both, id, 1, TRUE, TRUE).conn.subscribers = both.subscribers
              /\ basic_recover(Conn, id, TRUE).conn.subscribers["s1"].messages = <<>>

\* the entries of request id x in the three completion maps
EntriesOf(reqs, get_reqs, names, x) ==
    <<{p \in reqs : p[1] = x}, {p \in get_reqs : p[1] = x}, {p \in names : p[1] = x}>>
\* no request id is awaited on a channel and in a completion map at once,
\* and no completion map holds two values for one id
NeverBoth ==
    /\ \A t \in Tokens : TokenId(t) \notin Completed(Conn)
    /\ \A m \in {finished_reqs, finished_get_reqs, generated_names} :
           \A p, q \in m : p[1] = q[1] => p = q
\* one step: every entry stays with its value, and a completed id gets no
\* further entry
Latch ==
    /\ finished_reqs \subseteq finished_reqs'
    /\ finished_get_reqs \subseteq finished_get_reqs'
    /\ generated_names \subseteq generated_names'
    /\ \A x \in Completed(Conn) :
           EntriesOf(finished_reqs', finished_get_reqs', generated_names', x)
               = EntriesOf(finished_reqs, finished_get_reqs, generated_names, x)

(***************************************************************************)
(* C34: completion is a one-shot latch: once a request id appears in       *)
(* finished_reqs, finished_get_reqs or generated_names, no issuer or       *)
(* dispatcher call ever removes that entry or changes its value, each      *)
(* request id is completed at most once, and a request id never sits both  *)
(* in some channel's awaiting queue and in a completion map.               *)
(***************************************************************************)
C34_OneShotLatch == []NeverBoth /\ [][Latch]_vars

\* two requests are completed, one of them with a generated name
C34_Witness ==
    /\ Cardinality(Keys(finished_reqs)) >= 2
    /\ generated_names # EmptyMap
    /\ \E id \in DOMAIN channels :
           /\ StateTag(id) = "Connected"
           /\ finished_reqs \subseteq Dispatch(id, Method("queue.purge_ok")).conn.finished_reqs

\* methods outside the dispatcher's list: requests only a client sends,
\* methods of classes the client does not use, and connection-level ones
Unhandled ==
    InvalidMethods \cup {"queue.declare", "basic.return", "basic.cancel",
                         "tx.commit_ok", "connection.close"}

(***************************************************************************)
(* C35: given a method the client must not receive (any class/method not   *)
(* in its handled list, such as channel.open, basic.publish or any tx    *)
(* method), the                                                            *)
(* dispatcher returns InvalidMethod carrying that method and leaves the    *)
(* whole model unchanged: no channel state changes, awaiting is not        *)
(* popped, and no completion map is touched.                               *)
(***************************************************************************)
C35_InvalidMethod ==
    /\ Unhandled \cap HandledMethods = {}
    /\ \A id \in CallIds, n \in Unhandled, ok \in BOOLEAN :
           LET r == receive_method(Conn, id, Method(n), ok, "") IN
           /\ r.res = "InvalidMethod"
           /\ r.val = Method(n)
           /\ r.conn = Conn

\* a channel with a pending request receives a tx.select_ok
C35_Witness ==
    \E id \in DOMAIN channels :
        /\ StateTag(id) = "Connected"
        /\ Awaiting(id) # <<>>
        /\ finished_reqs # EmptyMap
        /\ Dispatch(id, Method("tx.select_ok")).res = "InvalidMethod"
        /\ Dispatch(id, Method("tx.select_ok")).conn.channels[id].awaiting = Awaiting(id)

\* the pending requests of channel id that are not tracked publishes, oldest first
SyncAwaiting(id) ==
    SelectSeq(Awaiting(id), LAMBDA a : a.kind # "AwaitingPublishConfirm")
\* the tracked publishes among the pending requests of channel id
ConfirmTokens(id) ==
    SelectSeq(Awaiting(id), LAMBDA a : a.kind = "AwaitingPublishConfirm")

(***************************************************************************)
(* C36 as stated: on a Connected channel with confirms on, the reply to    *)
(* the oldest pending synchronous request is accepted although publishes   *)
(* issued before it are still unconfirmed: queue.declare_ok, arriving      *)
(* before the broker's basic.ack, returns Ok, completes the queue_declare  *)
(* and leaves the channel Connected.                                       *)
(***************************************************************************)
C36_ReplyBeforeConfirm ==
    \A id \in DOMAIN channels, m \in DeclareOks :
        (/\ StateTag(id) = "Connected"
         /\ channels[id].confirm
         /\ SyncAwaiting(id) # <<>>
         /\ Head(SyncAwaiting(id)).kind = "AwaitingQueueDeclareOk") =>
            LET r == Dispatch(id, m) IN
            /\ r.res = "Ok"
            /\ <<Head(SyncAwaiting(id)).request_id, TRUE>> \in r.conn.finished_reqs
            /\ r.conn.channels[id].state = Connected

(***************************************************************************)
(* C37 as stated: on a channel with confirms on, awaiting holds as many    *)
(* AwaitingPublishConfirm tokens as unacked has tags, so that no token of  *)
(* an already confirmed tag is left to block later replies.                *)
(***************************************************************************)
C37_TokenPerUnacked ==
    \A id \in DOMAIN channels :
        channels[id].confirm =>
            Len(ConfirmTokens(id)) = Cardinality(channels[id].unacked)

(***************************************************************************)
(* C38 as stated: the non-zero delivery tags basic_publish returns on one  *)
(* channel are strictly increasing over the channel's lifetime, a repeated *)
(* confirm_select / confirm.select_ok included, and the tag the next       *)
(* publish returns is in none of unacked, acked and nacked.                *)
(***************************************************************************)
C38_TagsNeverReused ==
    \A id \in DOMAIN channels :
        /\ \A i, j \in DOMAIN published[id] :
               (i < j /\ published[id][i] # 0 /\ published[id][j] # 0)
                   => published[id][i] < published[id][j]
        /\ (StateTag(id) = "Connected" /\ channels[id].confirm) =>
               basic_publish(Conn, id, TRUE).val
                   \notin channels[id].unacked \cup channels[id].acked \cup channels[id].nacked

(***************************************************************************)
(* C39 as stated: queue.declare_ok for a queue that already has a shadow   *)
(* on the channel keeps the shadow's bindings and consumers (and whatever  *)
(* else it holds) and refreshes only message_count and consumer_count.     *)
(***************************************************************************)
C39_RedeclareKeepsShadow ==
    \A id \in DOMAIN channels, m \in DeclareOkReplies :
        (/\ StateTag(id) = "Connected"
         /\ HeadIs(id, "AwaitingQueueDeclareOk")
         /\ Has(channels[id].queues, m.queue)) =>
            LET r == Dispatch(id, m)
                before == Get(channels[id].queues, m.queue)
            IN /\ r.res = "Ok"
               /\ Has(r.conn.channels[id].queues, m.queue)
               /\ Get(r.conn.channels[id].queues, m.queue)
                      = [before EXCEPT !.message_count = m.message_count,
                                       !.consumer_count = m.consumer_count]

(***************************************************************************)
(* Two channels side by side: each is opened, has its flow and its         *)
(* prefetch values set, and the broker answers and sets the flow itself.   *)
(***************************************************************************)
MaxReqIso == 3
NextIso ==
    \/ ChannelOpen(MaxReqIso) \/ ReceiveChannelOpenOk
    \/ ChannelFlow(MaxReqIso) \/ ReceiveChannelFlow \/ ReceiveChannelFlowOk
    \/ BasicQos(MaxReqIso) \/ ReceiveBasicQosOk
SpecIso == Init /\ [][NextIso]_vars

\* connection c after channel `other` has consumed (OtherConsumes), has
\* turned confirms on, has published once and has asked for a binding of q1:
\* it then holds a queue with a consumer and a binding, an unconfirmed tag
\* and two pending requests
OtherBusy(c, other) ==
    LET consumed == OtherConsumes(c, other)
        selected == receive_confirm_select_ok(
                        confirm_select(consumed, other, TRUE).conn, other).conn
        published2 == basic_publish(selected, other, TRUE).conn
    IN Sent(queue_bind(published2, other, "q1", "e1", "k1", FALSE, TRUE).conn)
\* no call naming channel id changes channel `other` of connection c
Isolated(c, id, other) ==
    \A ok \in BOOLEAN :
        /\ \A call \in IssuerCalls :
               issue(c, id, call, ok).conn.channels[other] = c.channels[other]
        /\ \A m \in InboundMethods, last \in {"", "q1"} :
               receive_method(c, id, m, ok, last).conn.channels[other] = c.channels[other]

(***************************************************************************)
(* C40: channels are isolated: an issuer call or an inbound method naming  *)
(* one channel (or a channel that does not exist) leaves every other       *)
(* channel as it was: state, awaiting, flow flags, queues with their       *)
(* bindings and consumers, per-channel prefetch values, confirm, unacked,  *)
(* acked, nacked and message_count; a global basic.qos_ok changes the      *)
(* connection's prefetch values and no channel's.                          *)
(***************************************************************************)
C40_ChannelsIsolated ==
    \A id \in CallIds : \A other \in DOMAIN channels \ {id} :
        /\ Isolated(Conn, id, other)
        /\ (StateTag(other) = "Initial" /\ Awaiting(other) = <<>>) =>
               LET busy == OtherBusy(Conn, other) IN
               /\ busy.channels[other].unacked = {1}
               /\ Len(busy.channels[other].awaiting) = 2
               /\ SubscribersOn(busy, other) = {"s2"}
               /\ Isolated(busy, id, other)
        /\ (id \in DOMAIN channels /\ StateTag(id) = "Connected"
                /\ HeadIs(id, "AwaitingBasicQosOk") /\ Head(Awaiting(id)).global) =>
               LET r == Dispatch(id, Method("basic.qos_ok")) IN
               /\ r.conn.prefetch_size = Head(Awaiting(id)).prefetch_size
               /\ r.conn.prefetch_count = Head(Awaiting(id)).prefetch_count
               /\ \A k \in DOMAIN channels :
                      /\ r.conn.channels[k].prefetch_size = channels[k].prefetch_size
                      /\ r.conn.channels[k].prefetch_count = channels[k].prefetch_count

\* two channels are Connected, and the reply to a per-channel basic_qos on
\* one of them changes that channel's prefetch values alone
C40_Witness ==
    \E id, other \in DOMAIN channels :
        /\ id # other
        /\ StateTag(id) = "Connected" /\ StateTag(other) = "Connected"
        /\ HeadIs(id, "AwaitingBasicQosOk") /\ ~Head(Awaiting(id)).global
        /\ channels[other].prefetch_count # Head(Awaiting(id)).prefetch_count
        /\ LET r == Dispatch(id, Method("basic.qos_ok")) IN
           /\ r.res = "Ok"
           /\ r.conn.channels[id].prefetch_count = Head(Awaiting(id)).prefetch_count
           /\ r.conn.channels[id] # channels[id]
           /\ r.conn.channels[other] = channels[other]

====
